---------------------------- MODULE Spec2Model ----------------------------
(***************************************************************************)
(* A model of the Google Search Console node                               *)
(* (src/nodes/GoogleSearchConsole/GoogleSearchConsole.node.ts):            *)
(*   - the date helpers toGscDate, defaultedRange and rangeFromPreset,     *)
(*   - the paginated fetcher fetchAllRows,                                 *)
(*   - the comparison helpers buildCompareRanges, keyFromRow, rowsToMap,   *)
(*   - the per-item loop of execute with its dimension filters and the     *)
(*     join of comparePageInsights.                                        *)
(*                                                                         *)
(* Conventions.                                                            *)
(*   A JavaScript string is a sequence of one-character strings, so that   *)
(*   parsing, formatting, trimming and prefix tests are computed character *)
(*   by character.  An optional string argument is a record                *)
(*   [def, s]: def = FALSE is undefined.                                   *)
(*   A Date object is a record [valid, day]: day is the number of days     *)
(*   since 1970-01-01 of the instant it holds, valid = FALSE is the        *)
(*   Invalid Date (time value NaN).  The process time zone is taken to be  *)
(*   UTC, so that the local getters and setters the code uses (getDate,    *)
(*   setDate, getMonth, setMonth) read and write the same calendar fields  *)
(*   as toISOString; every operation of the code keeps the time of day,    *)
(*   which therefore never reaches a result and is not represented.        *)
(***************************************************************************)
EXTENDS Integers, Sequences, FiniteSets, TLC

VARIABLES
    \* ---- range resolution: one call of rangeFromPreset ----
    today,        \* the day `new Date()` falls on (days since the epoch)
    dMode,        \* argument mode
    dStart,       \* argument customStart
    dEnd,         \* argument customEnd
    dpc,          \* "call" before the call, "done" after it
    dResult,      \* what the call produced: a range, or the error it threw
    \* ---- one call of fetchAllRows ----
    fSite,        \* argument siteUrl
    fBody,        \* argument body
    targetLimit,  \* argument targetLimit
    rows,         \* local rows
    startRow,     \* local startRow
    perRequest,   \* local perRequest
    fpc,          \* "idle", "call", "await" (a request is in flight),
                  \* "returned" or "threw"
    fResult,      \* the rows returned
    pageLens,     \* the length of every chunk received by this call
    \* ---- the remote API ----
    remote,       \* how the remote answers a query
    reqLog,       \* the requests issued, oldest first: by the fetchAllRows
                  \* call under SpecFetch, for the current item under Spec
    \* ---- execute ----
    nItems,       \* items.length
    i,            \* the loop index
    pc,           \* where execute stands
    cur,          \* the locals of the current iteration that outlive a
                  \* suspension
    returnData,   \* the records pushed so far, in groups (see below)
    thrown,       \* the error execute rejected with
    output,       \* the array execute returned
    hist,         \* for every item processed: what became of it (a history
                  \* variable, not program state)
    \* ---- one call of buildCompareRanges ----
    cMode,        \* argument mode
    cCustomB,     \* argument customB
    cpc,          \* "idle", "call" before the call, "done" after it
    cResult,      \* what the call produced: the two ranges, or the error
    \* ---- one run of the join of comparePageInsights ----
    jDims,        \* dims
    jRowsA,       \* rowsA
    jRowsB,       \* rowsB
    jpc,          \* "idle", "call" before the join, "done" after it
    jOut,         \* the records pushed, in push order
    \* ---- a second call of fetchAllRows with the same arguments ----
    callNo,       \* which call is under way: 1 or 2 (0: none)
    firstResult,  \* what the first call returned
    firstLog,     \* the requests of the first call
    \* ---- the request body of one item of execute ----
    qOperation,   \* operation
    qFilters,     \* filtersCollection
    qpc,          \* "idle", "call" before the body is built, "done" after it
    qGroups,      \* dimensionFilterGroups
    qBody         \* the body passed to fetchAllRows, without rowLimit

dateVars == <<today, dMode, dStart, dEnd, dpc, dResult>>

fetchVars == <<fSite, fBody, targetLimit, rows, startRow, perRequest, fpc, fResult,
               pageLens>>

netVars == <<remote, reqLog>>

execVars == <<nItems, i, pc, cur, returnData, thrown, output, hist>>

cmpVars == <<cMode, cCustomB, cpc, cResult>>

joinVars == <<jDims, jRowsA, jRowsB, jpc, jOut>>

againVars == <<callNo, firstResult, firstLog>>

filterVars == <<qOperation, qFilters, qpc, qGroups, qBody>>

\* what neither rangeFromPreset, nor one call of fetchAllRows, nor execute
\* writes
pureVars == <<cmpVars, joinVars, againVars, filterVars>>

vars == <<dateVars, fetchVars, netVars, execVars, pureVars>>

----------------------------------------------------------------------------
(* Strings *)

Undef == [def |-> FALSE, s |-> <<>>]

Str(s) == [def |-> TRUE, s |-> s]

EmptyString == <<>>

\* JavaScript truthiness of an optional string: undefined and '' are falsy.
Truthy(v) == v.def /\ v.s # <<>>

DigitChars == <<"0", "1", "2", "3", "4", "5", "6", "7", "8", "9">>

IsDigit(c) == \E k \in 1..10 : DigitChars[k] = c

DigitVal(c) == (CHOOSE k \in 1..10 : DigitChars[k] = c) - 1

\* n written with exactly two / four decimal digits
Pad2(n) == <<DigitChars[((n \div 10) % 10) + 1], DigitChars[(n % 10) + 1]>>

Pad4(n) == <<DigitChars[((n \div 1000) % 10) + 1], DigitChars[((n \div 100) % 10) + 1]>>
           \o Pad2(n % 100)

Num2(s, k) == 10 * DigitVal(s[k]) + DigitVal(s[k + 1])

Num4(s, k) == 100 * Num2(s, k) + Num2(s, k + 2)

----------------------------------------------------------------------------
(* The calendar of the Date object (ECMAScript MakeDay / YearFromTime):    *)
(* months are 1..12 here; the zero-based month of getMonth/setMonth is     *)
(* converted where the code uses it.                                       *)

\* day number of year y, month m (1..12), day 1, plus d - 1 days: like
\* MakeDay, d may be any integer and runs over into the neighbouring months
DaysFromCivil(y, m, d) ==
    LET yy  == IF m <= 2 THEN y - 1 ELSE y
        era == yy \div 400
        yoe == yy - era * 400
        mp  == IF m > 2 THEN m - 3 ELSE m + 9
        doy == (153 * mp + 2) \div 5 + d - 1
        doe == yoe * 365 + yoe \div 4 - yoe \div 100 + doy
    IN  era * 146097 + doe - 719468

\* <<year, month (1..12), day of the month>> of a day number
CivilFromDays(z) ==
    LET zz  == z + 719468
        era == zz \div 146097
        doe == zz - era * 146097
        yoe == (doe - doe \div 1460 + doe \div 36524 - doe \div 146096) \div 365
        doy == doe - (365 * yoe + yoe \div 4 - yoe \div 100)
        mp  == (5 * doy + 2) \div 153
        d   == doy - (153 * mp + 2) \div 5 + 1
        m   == IF mp < 10 THEN mp + 3 ELSE mp - 9
        y   == yoe + era * 400 + (IF m <= 2 THEN 1 ELSE 0)
    IN  <<y, m, d>>

InvalidDate == [valid |-> FALSE, day |-> 0]

DateOf(day) == [valid |-> TRUE, day |-> day]

\* /^\d{4}-\d{2}-\d{2}$/ : the date-only form of the ISO format
IsIsoDateShape(s) ==
    /\ Len(s) = 10
    /\ s[5] = "-" /\ s[8] = "-"
    /\ \A k \in {1, 2, 3, 4, 6, 7, 9, 10} : IsDigit(s[k])

\* new Date(string): a date-only ISO string with a month 1..12 and a day
\* 1..31 is UTC midnight of that day; any other string of the model's
\* alphabet is unparseable and gives the Invalid Date.  (The argument is
\* bound by a quantifier so that it is evaluated once, as a call does.)
ParseDate(s) ==
    LET Parsed(t) ==
            IF IsIsoDateShape(t) /\ Num2(t, 6) \in 1..12 /\ Num2(t, 9) \in 1..31
            THEN DateOf(DaysFromCivil(Num4(t, 1), Num2(t, 6), Num2(t, 9)))
            ELSE InvalidDate
    IN  CHOOSE dt \in {Parsed(t) : t \in {s}} : TRUE

\* date.toISOString().split('T')[0] of a valid Date
IsoDate(day) ==
    CHOOSE r \in {Pad4(c[1]) \o <<"-">> \o Pad2(c[2]) \o <<"-">> \o Pad2(c[3]) :
                  c \in {CivilFromDays(day)}} : TRUE

\* date.setDate(n) on a valid Date: day n of the Date's current month
SetDate(day, n) ==
    LET c == CivilFromDays(day) IN DaysFromCivil(c[1], c[2], n)

\* date.getDate()
GetDate(day) == CivilFromDays(day)[3]

\* date.getMonth(): zero-based
GetMonth(day) == CivilFromDays(day)[2] - 1

\* date.setMonth(m) on a valid Date, m zero-based and any integer: the same
\* day-of-month number in month m of the Date's year, running over into the
\* next month when that month is shorter
SetMonth(day, m) ==
    LET c == CivilFromDays(day)
    IN  DaysFromCivil(c[1] + (m \div 12), (m % 12) + 1, c[3])

----------------------------------------------------------------------------
(* toGscDate, defaultedRange, rangeFromPreset *)

\* Results of a call: a value, or the exception that left it.
Returned(v) == [ok |-> TRUE, val |-> v, error |-> ""]

NoRange == [startDate |-> <<>>, endDate |-> <<>>]

Threw(e) == [ok |-> FALSE, val |-> NoRange, error |-> e]

\* toGscDate(d): '' for a falsy or unparseable d, else the UTC date of d
toGscDate(d) ==
    LET Formatted(v) ==
            IF ~Truthy(v) THEN EmptyString
            ELSE CHOOSE r \in {IF ~dt.valid THEN EmptyString ELSE IsoDate(dt.day) :
                               dt \in {ParseDate(v.s)}} : TRUE
    IN  CHOOSE r \in {Formatted(v) : v \in {d}} : TRUE

\* date.toISOString(): throws RangeError on the Invalid Date.  The result
\* is kept as its date part, the only part toGscDate reads back.
CanIso(dt) == dt.valid

\* new Date(date.getTime() - 28 * 86400000)
DefaultSpanDays == 28

Minus28Days(dt) == IF dt.valid THEN DateOf(dt.day - DefaultSpanDays) ELSE InvalidDate

\* `x ?? y` where y is computed only when x is undefined
Coalesce(x, y) == IF x.def THEN x ELSE y

defaultedRange(start, end, now) ==
    LET endDt   == IF Truthy(end) THEN ParseDate(end.s) ELSE DateOf(now)
        startDt == IF Truthy(start) THEN ParseDate(start.s) ELSE Minus28Days(endDt)
    IN  \* argument evaluation order: startDt.toISOString() is reached only
        \* when start is undefined, endDt.toISOString() only when end is
        IF ~start.def /\ ~CanIso(startDt) THEN Threw("RangeError")
        ELSE IF ~end.def /\ ~CanIso(endDt) THEN Threw("RangeError")
        ELSE Returned([
               startDate |-> toGscDate(Coalesce(start, Str(IsoDate(startDt.day)))),
               endDate   |-> toGscDate(Coalesce(end, Str(IsoDate(endDt.day))))])

\* PresetStart with a setDate that does not run over into the previous
\* month: a day number below 1 is taken as day 1
PresetStartNoRollover(mode, e) ==
    LET sub(n) == IF GetDate(e) - n < 1 THEN 1 ELSE GetDate(e) - n
    IN  CASE mode = "last7d"   -> SetDate(e, sub(7))
          [] mode = "last28d"  -> SetDate(e, sub(28))
          [] mode = "last3mo"  -> SetMonth(e, GetMonth(e) - 3)
          [] mode = "last12mo" -> SetMonth(e, GetMonth(e) - 12)
          [] OTHER             -> SetDate(e, sub(28))

\* the switch of rangeFromPreset: the day s holds after it, for a valid
\* end day e (s and e are both copies of end)
PresetStart(mode, e) ==
    CASE mode = "last7d"   -> SetDate(e, GetDate(e) - 7)
      [] mode = "last28d"  -> SetDate(e, GetDate(e) - 28)
      [] mode = "last3mo"  -> SetMonth(e, GetMonth(e) - 3)
      [] mode = "last12mo" -> SetMonth(e, GetMonth(e) - 12)
      [] OTHER             -> SetDate(e, GetDate(e) - 28)

rangeFromPreset(mode, customStart, customEnd, now) ==
    LET end == IF Truthy(customEnd) THEN ParseDate(customEnd.s) ELSE DateOf(now)
    IN  IF mode # "custom"
        THEN \* on the Invalid Date the setters leave s invalid and
             \* s.toISOString() throws
             IF ~CanIso(end) THEN Threw("RangeError")
             ELSE Returned([
                    startDate |-> toGscDate(Str(IsoDate(PresetStart(mode, end.day)))),
                    endDate   |-> toGscDate(Str(IsoDate(end.day)))])
        ELSE defaultedRange(customStart, customEnd, now)

----------------------------------------------------------------------------
(* daysInclusive, shiftDays, shiftYears, buildCompareRanges *)

\* a number that may be NaN
NaN == [def |-> FALSE, n |-> 0]

Number(n) == [def |-> TRUE, n |-> n]

\* Math.floor((endUTC - startUTC) / msPerDay) + 1, NaN if either string is
\* unparseable
daysInclusive(a, b) ==
    LET start == ParseDate(a)
        end   == ParseDate(b)
    IN  IF start.valid /\ end.valid THEN Number(end.day - start.day + 1) ELSE NaN

\* a string result, or the RangeError toISOString threw
StrResult(s) == [ok |-> TRUE, s |-> s]

StrThrew == [ok |-> FALSE, s |-> <<>>]

\* shiftDays with a setDate that does not run over into the previous month:
\* a day number below 1 is taken as day 1
shiftDaysNoRollover(iso, days) ==
    LET d == ParseDate(iso)
    IN  IF ~d.valid \/ ~days.def THEN StrThrew
        ELSE StrResult(toGscDate(Str(IsoDate(
               SetDate(d.day, IF GetDate(d.day) + days.n < 1 THEN 1
                              ELSE GetDate(d.day) + days.n)))))

\* shiftDays(iso, days): days may be NaN
shiftDays(iso, days) ==
    LET d == ParseDate(iso)
    IN  IF ~d.valid \/ ~days.def THEN StrThrew
        ELSE StrResult(toGscDate(Str(IsoDate(SetDate(d.day, GetDate(d.day) + days.n)))))

\* SetFullYear that leaves the Date as it is
SetFullYearIgnored(day, y) == day

\* date.setFullYear(y): the same month and day-of-month number in year y,
\* running over into March for 29 February
SetFullYear(day, y) ==
    LET c == CivilFromDays(day) IN DaysFromCivil(y, c[2], c[3])

GetFullYear(day) == CivilFromDays(day)[1]

shiftYears(iso, years) ==
    LET d == ParseDate(iso)
    IN  IF ~d.valid THEN StrThrew
        ELSE StrResult(toGscDate(Str(IsoDate(SetFullYear(d.day, GetFullYear(d.day) + years)))))

\* -(dur - 1) of a number that may be NaN
NegPred(dur) == IF dur.def THEN Number(-(dur.n - 1)) ELSE NaN

\* customB of buildCompareRanges; mode '' stands for a missing mode
CustomB(mode, start, end) == [mode |-> mode, start |-> start, end |-> end]

NoCustomB == CustomB("", Undef, Undef)

\* what buildCompareRanges returns: { rangeA, rangeB }
BothRanges(rangeA, rangeB) ==
    [ok |-> TRUE, val |-> [rangeA |-> rangeA, rangeB |-> rangeB], error |-> ""]

\* buildCompareRanges left by a RangeError
BuildThrew ==
    [ok |-> FALSE, val |-> [rangeA |-> NoRange, rangeB |-> NoRange], error |-> "RangeError"]

\* buildCompareRanges whose custom policy takes the end of range B from
\* range A where customB gives none
buildCompareRangesCustomFromA(mode, rangeA, customB, now) ==
    IF mode = "prevPeriod"
    THEN LET dur    == daysInclusive(rangeA.startDate, rangeA.endDate)
             endB   == shiftDays(rangeA.startDate, Number(-1))
             startB == shiftDays(endB.s, NegPred(dur))
         IN  IF ~endB.ok \/ ~startB.ok THEN BuildThrew
             ELSE BothRanges(rangeA, [startDate |-> startB.s, endDate |-> endB.s])
    ELSE IF mode = "prevYear"
    THEN LET startB == shiftYears(rangeA.startDate, -1)
             endB   == shiftYears(rangeA.endDate, -1)
         IN  IF ~startB.ok \/ ~endB.ok THEN BuildThrew
             ELSE BothRanges(rangeA, [startDate |-> startB.s, endDate |-> endB.s])
    ELSE LET r == rangeFromPreset(IF customB.mode = "" THEN "last28d" ELSE customB.mode,
                                  customB.start,
                                  IF Truthy(customB.end) THEN customB.end
                                  ELSE Str(rangeA.endDate),
                                  now)
         IN  IF ~r.ok THEN BuildThrew ELSE BothRanges(rangeA, r.val)

\* buildCompareRanges(mode, rangeA, customB): { rangeA, rangeB }, or the
\* error thrown; now is the day the `new Date()` of rangeFromPreset falls on
buildCompareRanges(mode, rangeA, customB, now) ==
    IF mode = "prevPeriod"
    THEN LET dur    == daysInclusive(rangeA.startDate, rangeA.endDate)
             endB   == shiftDays(rangeA.startDate, Number(-1))
             startB == shiftDays(endB.s, NegPred(dur))
         IN  IF ~endB.ok \/ ~startB.ok THEN BuildThrew
             ELSE BothRanges(rangeA, [startDate |-> startB.s, endDate |-> endB.s])
    ELSE IF mode = "prevYear"
    THEN LET startB == shiftYears(rangeA.startDate, -1)
             endB   == shiftYears(rangeA.endDate, -1)
         IN  IF ~startB.ok \/ ~endB.ok THEN BuildThrew
             ELSE BothRanges(rangeA, [startDate |-> startB.s, endDate |-> endB.s])
    ELSE LET r == rangeFromPreset(IF customB.mode = "" THEN "last28d" ELSE customB.mode,
                                  customB.start, customB.end, now)
         IN  IF ~r.ok THEN BuildThrew ELSE BothRanges(rangeA, r.val)

----------------------------------------------------------------------------
(* validateSiteUrlOrThrow *)

IsSpace(c) == c = " "

RECURSIVE TrimStart(_)
TrimStart(s) == IF s # <<>> /\ IsSpace(s[1]) THEN TrimStart(Tail(s)) ELSE s

RECURSIVE TrimEnd(_)
TrimEnd(s) ==
    IF s # <<>> /\ IsSpace(s[Len(s)]) THEN TrimEnd(SubSeq(s, 1, Len(s) - 1)) ELSE s

\* string.trim()
Trim(s) == TrimEnd(TrimStart(s))

StartsWith(s, p) == Len(s) >= Len(p) /\ SubSeq(s, 1, Len(p)) = p

\* /^https?:\/\//.test(s)
IsHttpUrl(s) ==
    \/ StartsWith(s, <<"h", "t", "t", "p", ":", "/", "/">>)
    \/ StartsWith(s, <<"h", "t", "t", "p", "s", ":", "/", "/">>)

\* /^sc-domain:/.test(s)
IsDomainProperty(s) == StartsWith(s, <<"s", "c", "-", "d", "o", "m", "a", "i", "n", ":">>)

NoSitesPlaceholder == <<"_", "_", "N", "O", "_", "S", "I", "T", "E", "S", "_", "_">>

\* an error object: NodeOperationError carries the itemIndex it was given,
\* the others carry none (-1)
Error(type, message, itemIndex) ==
    [type |-> type, message |-> message, itemIndex |-> itemIndex]

NoError == Error("none", "", -1)

RangeError == Error("RangeError", "Invalid time value", -1)

TransportError == Error("TransportError", "request failed", -1)

SiteFormatMessage ==
    "Site URL must start with http(s):// or sc-domain:. Example: https://example.com/ or sc-domain:example.com"

\* validateSiteUrlOrThrow with errors that carry no itemIndex
validateSiteUrlWithoutIndex(itemIndex, siteUrl, context) ==
    LET trimmed == Trim(siteUrl)
    IN  IF trimmed = <<>> \/ trimmed = NoSitesPlaceholder
        THEN [ok |-> FALSE, site |-> <<>>,
              error |-> Error("NodeOperationError", "No site selected for " \o context \o ".",
                              -1)]
        ELSE IF ~IsHttpUrl(trimmed) /\ ~IsDomainProperty(trimmed)
        THEN [ok |-> FALSE, site |-> <<>>,
              error |-> Error("NodeOperationError", SiteFormatMessage, -1)]
        ELSE [ok |-> TRUE, site |-> trimmed, error |-> NoError]

\* validateSiteUrlOrThrow that turns a URL-prefix identifier into the domain
\* identifier of its host and path
validateSiteUrlAsDomain(itemIndex, siteUrl, context) ==
    LET trimmed == Trim(siteUrl)
        domain  == <<"s", "c", "-", "d", "o", "m", "a", "i", "n", ":">>
    IN  IF trimmed = <<>> \/ trimmed = NoSitesPlaceholder
        THEN [ok |-> FALSE, site |-> <<>>,
              error |-> Error("NodeOperationError", "No site selected for " \o context \o ".",
                              itemIndex)]
        ELSE IF ~IsHttpUrl(trimmed) /\ ~IsDomainProperty(trimmed)
        THEN [ok |-> FALSE, site |-> <<>>,
              error |-> Error("NodeOperationError", SiteFormatMessage, itemIndex)]
        ELSE IF StartsWith(trimmed, <<"h", "t", "t", "p", "s">>)
        THEN [ok |-> TRUE, site |-> domain \o SubSeq(trimmed, 9, Len(trimmed)),
              error |-> NoError]
        ELSE IF IsHttpUrl(trimmed)
        THEN [ok |-> TRUE, site |-> domain \o SubSeq(trimmed, 8, Len(trimmed)),
              error |-> NoError]
        ELSE [ok |-> TRUE, site |-> trimmed, error |-> NoError]

\* the result of validateSiteUrlOrThrow(node, itemIndex, siteUrl, context):
\* the trimmed identifier, or the NodeOperationError thrown
validateSiteUrlOrThrow(itemIndex, siteUrl, context) ==
    LET trimmed == Trim(siteUrl)
    IN  IF trimmed = <<>> \/ trimmed = NoSitesPlaceholder
        THEN [ok |-> FALSE, site |-> <<>>,
              error |-> Error("NodeOperationError", "No site selected for " \o context \o ".",
                              itemIndex)]
        ELSE IF ~IsHttpUrl(trimmed) /\ ~IsDomainProperty(trimmed)
        THEN [ok |-> FALSE, site |-> <<>>,
              error |-> Error("NodeOperationError", SiteFormatMessage, itemIndex)]
        ELSE [ok |-> TRUE, site |-> trimmed, error |-> NoError]

----------------------------------------------------------------------------
(* The dimension filters execute builds for every item.  An entry of the   *)
(* filters collection is a record [dimension, operator, valuesJoin,        *)
(* expression]; '' stands for a field that is missing or empty.            *)

makeFilter(dimension, operator, expression) ==
    [dimension |-> dimension, operator |-> operator, expression |-> expression]

\* s.split(','): the pieces between the commas, empty ones included
RECURSIVE SplitComma(_)
SplitComma(s) ==
    IF \A k \in 1..Len(s) : s[k] # "," THEN <<s>>
    ELSE LET c == CHOOSE k \in 1..Len(s) : s[k] = "," /\ \A j \in 1..(k - 1) : s[j] # ","
         IN  <<SubSeq(s, 1, c - 1)>> \o SplitComma(SubSeq(s, c + 1, Len(s)))

\* values: exprRaw.split(',').map(v => v.trim()).filter(Boolean) when exprRaw
\* is not empty, [] when it is
FilterValues(expression) ==
    LET exprRaw == Trim(expression)
        pieces  == SplitComma(exprRaw)
    IN  IF exprRaw = <<>> THEN <<>>
        ELSE SelectSeq([k \in 1..Len(pieces) |-> Trim(pieces[k])], LAMBDA v : v # <<>>)

FilterGroup(groupType, filters) == [groupType |-> groupType, filters |-> filters]

\* FilterGroupsOf with the group type taken from valuesJoin for a single
\* value as well
FilterGroupsOfJoinAlways(f) ==
    LET operator   == IF f.operator = "" THEN "contains" ELSE f.operator
        valuesJoin == IF f.valuesJoin = "" THEN "or" ELSE f.valuesJoin
        values     == FilterValues(f.expression)
    IN  IF f.dimension # "page" /\ f.dimension # "query" THEN <<>>
        ELSE IF Len(values) >= 1
        THEN <<FilterGroup(valuesJoin,
                           [k \in 1..Len(values) |->
                               makeFilter(f.dimension, operator, values[k])])>>
        ELSE <<>>

\* what one iteration of the loop over filtersCollection pushes: nothing or
\* one group
FilterGroupsOf(f) ==
    LET operator   == IF f.operator = "" THEN "contains" ELSE f.operator
        valuesJoin == IF f.valuesJoin = "" THEN "or" ELSE f.valuesJoin
        values     == FilterValues(f.expression)
    IN  IF f.dimension # "page" /\ f.dimension # "query" THEN <<>>
        ELSE IF Len(values) = 1
        THEN <<FilterGroup("and", <<makeFilter(f.dimension, operator, values[1])>>)>>
        ELSE IF Len(values) > 1
        THEN <<FilterGroup(valuesJoin,
                           [k \in 1..Len(values) |->
                               makeFilter(f.dimension, operator, values[k])])>>
        ELSE <<>>

\* dimensionFilterGroups after the loop over filtersCollection
RECURSIVE dimensionFilterGroups(_)
dimensionFilterGroups(filtersCollection) ==
    IF filtersCollection = <<>> THEN <<>>
    ELSE FilterGroupsOf(filtersCollection[1]) \o dimensionFilterGroups(Tail(filtersCollection))

\* a body without the field dimensionFilterGroups
NoFilterGroups == [def |-> FALSE, groups |-> <<>>]

\* ...(dimensionFilterGroups.length ? { dimensionFilterGroups } : {}): the
\* field as the body holds it
FilterGroupsField(groups) ==
    IF Len(groups) # 0 THEN [def |-> TRUE, groups |-> groups] ELSE NoFilterGroups

----------------------------------------------------------------------------
(* fetchAllRows *)

Min2(a, b) == IF a <= b THEN a ELSE b

Max2(a, b) == IF a >= b THEN a ELSE b

\* an optional number (body.rowLimit may be absent)
NoNum == [def |-> FALSE, n |-> 0]

Num(n) == [def |-> TRUE, n |-> n]

(* A row sequence is kept run-length encoded: a sequence of runs            *)
(* [from, len], len > 0, the run standing for the len rows that are the     *)
(* source rows number from, from + 1, ..., from + len - 1 (zero-based, as   *)
(* startRow counts them).  Adjacent runs that continue each other are       *)
(* merged, so that equal row sequences have equal encodings.                *)
RECURSIVE RowsLen(_)
RowsLen(rs) == IF rs = <<>> THEN 0 ELSE rs[1].len + RowsLen(Tail(rs))

\* PushChunk that puts the chunk in front of the rows held (unshift)
PushChunkInFront(rs, from, len) ==
    IF len = 0 THEN rs
    ELSE IF rs # <<>> /\ from + len = rs[1].from
         THEN [rs EXCEPT ![1].from = from, ![1].len = @ + len]
         ELSE <<[from |-> from, len |-> len]>> \o rs

\* rows.push(...chunk), the chunk being the run [from, len]
PushChunk(rs, from, len) ==
    IF len = 0 THEN rs
    ELSE IF rs # <<>> /\ rs[Len(rs)].from + rs[Len(rs)].len = from
         THEN [rs EXCEPT ![Len(rs)].len = @ + len]
         ELSE Append(rs, [from |-> from, len |-> len])

\* the first k rows, 0 <= k <= RowsLen(rs)
RECURSIVE TakeRows(_, _)
TakeRows(rs, k) ==
    IF k = 0 \/ rs = <<>> THEN <<>>
    ELSE IF rs[1].len >= k THEN <<[from |-> rs[1].from, len |-> k]>>
         ELSE <<rs[1]>> \o TakeRows(Tail(rs), k - rs[1].len)

\* Slice with the truncation left out: all the rows collected
SliceAll(rs, end) == rs

\* rows.slice(0, end): a negative end counts from the end of the array
Slice(rs, end) ==
    LET n == RowsLen(rs)
        e == IF end < 0 THEN Max2(n + end, 0) ELSE Min2(end, n)
    IN  TakeRows(rs, e)

DefaultPerRequest == 1000

MinPerRequest == 100

MaxPerRequest == 25000

\* perRequest with no clamp: body.rowLimit ?? 1000
PerRequestUnclamped(body) ==
    IF body.rowLimit.def THEN body.rowLimit.n ELSE DefaultPerRequest

\* Math.max(100, Math.min(body.rowLimit ?? 1000, 25000))
PerRequestOf(body) ==
    Max2(MinPerRequest,
         Min2(IF body.rowLimit.def THEN body.rowLimit.n ELSE DefaultPerRequest,
              MaxPerRequest))

\* what encodeURIComponent writes for a character: the %XX escape of its
\* code for the reserved characters of the model's alphabet, the character
\* itself for letters, digits and - _ . ! ~ * ' ( )
EscapeOf(c) ==
    CASE c = " " -> <<"%", "2", "0">>
      [] c = "#" -> <<"%", "2", "3">>
      [] c = "%" -> <<"%", "2", "5">>
      [] c = "&" -> <<"%", "2", "6">>
      [] c = "+" -> <<"%", "2", "B">>
      [] c = "/" -> <<"%", "2", "F">>
      [] c = ":" -> <<"%", "3", "A">>
      [] c = "=" -> <<"%", "3", "D">>
      [] c = "?" -> <<"%", "3", "F">>
      [] c = "@" -> <<"%", "4", "0">>
      [] OTHER   -> <<c>>

RECURSIVE encodeURIComponent(_)
encodeURIComponent(s) ==
    IF s = <<>> THEN <<>> ELSE EscapeOf(s[1]) \o encodeURIComponent(Tail(s))

\* the request of one loop iteration: url .../sites/<site>/searchAnalytics/
\* query, of which the log keeps the site segment as it is written into the
\* path, and body { ...body, rowLimit, startRow }
QueryRequest(site, body, perReq, start) ==
    [api |-> "query", site |-> encodeURIComponent(site), rowLimit |-> perReq,
     startRow |-> start,
     base |-> body.base, outcome |-> "sent"]

\* Array.isArray(resp?.rows) ? resp.rows : []  (its length)
ChunkLen(resp) == IF resp.hasRows THEN resp.len ELSE 0

\* the two breaks that follow the push; no short-page break
BreaksAfterPushOnLimitOnly(chunkLen, perReq, collected, target) ==
    collected >= target

\* the two breaks that follow the push: a short page, or enough rows
BreaksAfterPush(chunkLen, perReq, collected, target) ==
    chunkLen < perReq \/ collected >= target

SetOutcome(log, o) == [log EXCEPT ![Len(log)].outcome = o]

\* FetchLoop whose loop condition is rows.length <= targetLimit
FetchLoopWhileAtMost(rs, start, perReq, site, body, target, log, broke) ==
    IF ~broke /\ RowsLen(rs) <= target
    THEN /\ fpc' = "await"
         /\ reqLog' = Append(log, QueryRequest(site, body, perReq, start))
         /\ fResult' = fResult
    ELSE /\ fpc' = "returned"
         /\ reqLog' = log
         /\ fResult' = Slice(rs, target)

\* From the head of the while loop to the next suspension: with the loop
\* left by a break, or its condition false, the function returns the
\* slice; otherwise the next request goes out.
FetchLoop(rs, start, perReq, site, body, target, log, broke) ==
    IF ~broke /\ RowsLen(rs) < target
    THEN /\ fpc' = "await"
         /\ reqLog' = Append(log, QueryRequest(site, body, perReq, start))
         /\ fResult' = fResult
    ELSE /\ fpc' = "returned"
         /\ reqLog' = log
         /\ fResult' = Slice(rs, target)

\* FetchEnter with startRow kept from an earlier call instead of set to 0
FetchEnterKeepsOffset(site, body, target, log) ==
    /\ fSite' = site
    /\ fBody' = body
    /\ targetLimit' = target
    /\ rows' = <<>>
    /\ startRow' = startRow
    /\ perRequest' = PerRequestOf(body)
    /\ pageLens' = <<>>
    /\ FetchLoop(<<>>, startRow, PerRequestOf(body), site, body, target, log, FALSE)

\* fetchAllRows(ctx, site, body, target) up to its first suspension; log
\* holds the requests issued before the call
FetchEnter(site, body, target, log) ==
    /\ fSite' = site
    /\ fBody' = body
    /\ targetLimit' = target
    /\ rows' = <<>>
    /\ startRow' = 0
    /\ perRequest' = PerRequestOf(body)
    /\ pageLens' = <<>>
    /\ FetchLoop(<<>>, 0, PerRequestOf(body), site, body, target, log, FALSE)

\* the request in flight
LastRequest == reqLog[Len(reqLog)]

\* FetchResume with startRow advanced by the page size requested instead
\* of the length of the page received
FetchResumeAdvancesByPageSize(resp) ==
    LET n     == ChunkLen(resp)
        rs    == PushChunk(rows, resp.from, n)
        broke == n = 0 \/ BreaksAfterPush(n, perRequest, RowsLen(rs), targetLimit)
    IN  /\ rows' = rs
        /\ startRow' = startRow + perRequest
        /\ pageLens' = Append(pageLens, n)
        /\ FetchLoop(rs, startRow + perRequest, perRequest, fSite, fBody, targetLimit,
                     SetOutcome(reqLog, "ok"), broke)
        /\ UNCHANGED <<fSite, fBody, targetLimit, perRequest>>

\* FetchResume that writes the page size and the offset into the body it
\* was given instead of a copy of it
FetchResumeWritesBody(resp) ==
    LET n     == ChunkLen(resp)
        rs    == PushChunk(rows, resp.from, n)
        broke == n = 0 \/ BreaksAfterPush(n, perRequest, RowsLen(rs), targetLimit)
    IN  /\ rows' = rs
        /\ startRow' = startRow + n
        /\ pageLens' = Append(pageLens, n)
        /\ fBody' = [fBody EXCEPT !.rowLimit = Num(perRequest)]
        /\ FetchLoop(rs, startRow + n, perRequest, fSite, fBody', targetLimit,
                     SetOutcome(reqLog, "ok"), broke)
        /\ UNCHANGED <<fSite, targetLimit, perRequest>>

\* the awaited request is answered with resp: the rest of the iteration
\* and the loop up to the next suspension
FetchResume(resp) ==
    LET n     == ChunkLen(resp)
        rs    == PushChunk(rows, resp.from, n)
        broke == n = 0 \/ BreaksAfterPush(n, perRequest, RowsLen(rs), targetLimit)
    IN  /\ rows' = rs
        /\ startRow' = startRow + n
        /\ pageLens' = Append(pageLens, n)
        /\ FetchLoop(rs, startRow + n, perRequest, fSite, fBody, targetLimit,
                     SetOutcome(reqLog, "ok"), broke)
        /\ UNCHANGED <<fSite, fBody, targetLimit, perRequest>>

\* FetchThrow with the rejection caught inside fetchAllRows: the loop is
\* left and the rows collected so far are returned
FetchThrowKeepsRows ==
    /\ fpc' = "returned"
    /\ fResult' = Slice(rows, targetLimit)
    /\ reqLog' = SetOutcome(reqLog, "failed")
    /\ UNCHANGED <<fSite, fBody, targetLimit, rows, startRow, perRequest, pageLens>>

\* FetchThrow with one retry: the first rejection of a call is answered by
\* sending the same request again
FetchThrowRetriesOnce ==
    /\ IF \E r \in 1..(Len(reqLog) - 1) : reqLog[r].outcome = "failed"
       THEN /\ fpc' = "threw"
            /\ reqLog' = SetOutcome(reqLog, "failed")
       ELSE /\ fpc' = "await"
            /\ reqLog' = Append(SetOutcome(reqLog, "failed"),
                                QueryRequest(fSite, fBody, perRequest, startRow))
    /\ UNCHANGED <<fSite, fBody, targetLimit, rows, startRow, perRequest, fResult,
                   pageLens>>

\* the awaited request rejects: nothing catches it inside fetchAllRows
FetchThrow ==
    /\ fpc' = "threw"
    /\ reqLog' = SetOutcome(reqLog, "failed")
    /\ UNCHANGED <<fSite, fBody, targetLimit, rows, startRow, perRequest, fResult,
                   pageLens>>

----------------------------------------------------------------------------
(* execute *)

(* returnData is kept in groups: a group stands for the records that one   *)
(* forEach / for loop pushed in a row, all paired with the same item.      *)
(*   kind "error"   : the one record {error: message}                      *)
(*   kind "sites"   : count records, one per site entry                    *)
(*   kind "rows"    : one record mapRow(dimensions, r) per row r of rows   *)
(*   kind "inspect" : the one record of the inspection result              *)
(*   kind "compare" : one record per key of rows (range A) or rowsB        *)
(* A loop over nothing pushes nothing and leaves no group.                 *)
GroupPairedWithFirst(item, kind) ==
    [item |-> 0, kind |-> kind, message |-> "", count |-> 0,
     dimensions |-> <<>>, rows |-> <<>>, rowsB |-> <<>>,
     rangeA |-> NoRange, rangeB |-> NoRange, compareMode |-> ""]

Group(item, kind) ==
    [item |-> item, kind |-> kind, message |-> "", count |-> 0,
     dimensions |-> <<>>, rows |-> <<>>, rowsB |-> <<>>,
     rangeA |-> NoRange, rangeB |-> NoRange, compareMode |-> ""]

ErrorGroup(item, e) == [Group(item, "error") EXCEPT !.message = e.message, !.count = 1]

SitesGroup(item, n) == [Group(item, "sites") EXCEPT !.count = n]

RowsGroup(item, dims, rs) ==
    [Group(item, "rows") EXCEPT !.dimensions = dims, !.rows = rs, !.count = RowsLen(rs)]

InspectGroup(item) == [Group(item, "inspect") EXCEPT !.count = 1]

\* The row of either range that is source row number k carries the key of
\* entity k, so the distinct keys of a row sequence are the source rows its
\* runs cover.  They are counted segment by segment between run ends.
RunEnds(rs) ==
    {rs[k].from : k \in 1..Len(rs)} \cup {rs[k].from + rs[k].len : k \in 1..Len(rs)}

Covers(rs, p) == \E k \in 1..Len(rs) : rs[k].from <= p /\ p < rs[k].from + rs[k].len

RECURSIVE CoveredFrom(_, _, _)
CoveredFrom(rs, ends, p) ==
    LET later == {q \in ends : q > p}
    IN  IF later = {} THEN 0
        ELSE LET next == CHOOSE q \in later : \A r \in later : q <= r
             IN  (IF Covers(rs, p) THEN next - p ELSE 0) + CoveredFrom(rs, ends, next)

\* new Set([...mapA.keys(), ...mapB.keys()]).size for rs = rowsA followed
\* by rowsB
KeyCount(rs) ==
    IF rs = <<>> THEN 0
    ELSE LET first == CHOOSE q \in RunEnds(rs) : \A r \in RunEnds(rs) : q <= r
         IN  CoveredFrom(rs, RunEnds(rs), first)

CompareGroup(item, dims, rsA, rsB, rA, rB, mode) ==
    [Group(item, "compare") EXCEPT !.dimensions = dims, !.rows = rsA, !.rowsB = rsB,
       !.rangeA = rA, !.rangeB = rB, !.compareMode = mode,
       !.count = KeyCount(rsA \o rsB)]

\* the pushes of a loop over the records of g
PushGroup(data, g) == IF g.count = 0 THEN data ELSE Append(data, g)

\* what became of an item: its operation, the error its iteration threw
\* (failure "none": nothing thrown), the flag as pushErr read it (FALSE
\* where pushErr was not called) and the outcomes of its requests
Outcome(op, cof, failure, e, log) ==
    [operation |-> op, continueOnFail |-> cof, failure |-> failure, error |-> e,
     requests |-> [k \in 1..Len(log) |-> log[k].outcome]]

\* the locals of an iteration before it reads them (siteInput is
\* siteUrlInput, the identifier as the item's parameters give it)
NoCur ==
    [operation |-> "", continueOnFail |-> FALSE, site |-> <<>>, dimensions |-> <<>>,
     rowLimit |-> 0, rangeA |-> NoRange, rangeB |-> NoRange, compareMode |-> "",
     rowsA |-> <<>>, siteInput |-> <<>>, dimensionFilterGroups |-> <<>>]

SitesRequest ==
    [api |-> "sites", site |-> <<>>, rowLimit |-> 0, startRow |-> 0,
     base |-> [dimensions |-> <<>>, searchType |-> "", startDate |-> <<>>, endDate |-> <<>>,
               dimensionFilterGroups |-> NoFilterGroups],
     outcome |-> "sent"]

\* body { inspectionUrl, siteUrl, languageCode }: the inspected URL travels
\* in the startDate slot of the log entry's base
InspectRequest(site, url) ==
    [api |-> "inspect", site |-> site, rowLimit |-> 0, startRow |-> 0,
     base |-> [dimensions |-> <<>>, searchType |-> "", startDate |-> url, endDate |-> <<>>,
               dimensionFilterGroups |-> NoFilterGroups],
     outcome |-> "sent"]

\* the body of getPageInsights
PageBody(range, dims, rowLimit, groups) ==
    [rowLimit |-> Num(Max2(1, Min2(rowLimit, MaxPerRequest))),
     base |-> [dimensions |-> dims, searchType |-> "web",
               startDate |-> range.startDate, endDate |-> range.endDate,
               dimensionFilterGroups |-> FilterGroupsField(groups)]]

\* { ...baseBody, ...range } of comparePageInsights
CompareBody(range, dims, groups) ==
    [rowLimit |-> NoNum,
     base |-> [dimensions |-> dims, searchType |-> "web",
               startDate |-> range.startDate, endDate |-> range.endDate,
               dimensionFilterGroups |-> FilterGroupsField(groups)]]

\* Caught with a pushErr that never rethrows
CaughtAlwaysContinues(e, cof, op, kindOfFailure, log) ==
    /\ hist' = Append(hist, Outcome(op, cof, kindOfFailure, e, log))
    /\ cur' = NoCur
    /\ returnData' = Append(returnData, ErrorGroup(i, e))
    /\ i' = i + 1
    /\ pc' = "loop"
    /\ UNCHANGED <<thrown, output>>

\* the catch block: pushErr(error), then the next iteration, or the throw
\* that ends execute
Caught(e, cof, op, kindOfFailure, log) ==
    /\ hist' = Append(hist, Outcome(op, cof, kindOfFailure, e, log))
    /\ cur' = NoCur
    /\ IF cof
       THEN /\ returnData' = Append(returnData, ErrorGroup(i, e))
            /\ i' = i + 1
            /\ pc' = "loop"
            /\ UNCHANGED <<thrown, output>>
       ELSE /\ pc' = "aborted"
            /\ thrown' = e
            /\ UNCHANGED <<returnData, i, output>>

\* the end of an iteration that threw nothing
Completed(op, log, data) ==
    /\ hist' = Append(hist, Outcome(op, FALSE, "none", NoError, log))
    /\ cur' = NoCur
    /\ returnData' = data
    /\ i' = i + 1
    /\ pc' = "loop"
    /\ UNCHANGED <<thrown, output>>

----------------------------------------------------------------------------
(* The join of comparePageInsights, on rows whose keys and metrics are     *)
(* written out.  Dimension values are strings; a metric is an integer (ctr *)
(* and position in units of their precision).                              *)

\* a GscQueryRow
Row(keys, clicks, impressions, ctr, position) ==
    [keys |-> keys, clicks |-> clicks, impressions |-> impressions, ctr |-> ctr,
     position |-> position]

\* keys.join('||')
RECURSIVE JoinKeys(_)
JoinKeys(keys) ==
    IF keys = <<>> THEN ""
    ELSE IF Len(keys) = 1 THEN keys[1]
    ELSE keys[1] \o "||" \o JoinKeys(Tail(keys))

keyFromRow(dimensions, row) == JoinKeys(row.keys)

\* A Map is the sequence of its entries [key, row] in insertion order.
MapHas(m, k) == \E e \in 1..Len(m) : m[e].key = k

\* m.get(k) of a key the map has
MapGet(m, k) == m[CHOOSE e \in 1..Len(m) : m[e].key = k].row

\* MapSet that leaves the row of a key the map has as it is
MapSetKeepsFirst(m, k, r) ==
    IF MapHas(m, k) THEN m ELSE Append(m, [key |-> k, row |-> r])

\* m.set(k, r): a key the map has keeps its place and takes the new row
MapSet(m, k, r) ==
    IF MapHas(m, k)
    THEN [e \in 1..Len(m) |-> IF m[e].key = k THEN [key |-> k, row |-> r] ELSE m[e]]
    ELSE Append(m, [key |-> k, row |-> r])

RECURSIVE MapFrom(_, _, _)
MapFrom(m, rs, dims) ==
    IF rs = <<>> THEN m
    ELSE MapFrom(MapSet(m, keyFromRow(dims, rs[1]), rs[1]), Tail(rs), dims)

rowsToMap(rs, dims) == MapFrom(<<>>, rs, dims)

MapKeys(m) == [e \in 1..Len(m) |-> m[e].key]

\* the keys of both maps one after the other, with no Set around them
AllKeysRepeated(mapA, mapB) == MapKeys(mapA) \o MapKeys(mapB)

\* new Set([...mapA.keys(), ...mapB.keys()]) in iteration order: the keys
\* of mapA, then the keys of mapB that mapA does not have
AllKeys(mapA, mapB) ==
    MapKeys(mapA) \o SelectSeq(MapKeys(mapB), LAMBDA k : ~MapHas(mapA, k))

\* emptyFrom that drops the keys it is given
emptyFromWithoutKeys(keys) == Row(<<>>, 0, 0, 0, 0)

emptyFrom(keys) == Row(keys, 0, 0, 0, 0)

\* Diff with the operands exchanged
DiffReversed(a, b) == b - a

\* the _diff fields
Diff(a, b) == a - b

\* out[dims[idx]] = v for every value of keys: the fields in the order they
\* are written; dims[idx] is undefined beyond the end of dims
DimensionFields(dims, keys) ==
    [idx \in 1..Len(keys) |->
        [name |-> IF idx <= Len(dims) THEN dims[idx] ELSE "undefined", value |-> keys[idx]]]

\* the record pushed for key k
JoinRecord(k, mapA, mapB, dims, rangeA, rangeB, compareMode) ==
    LET valsA == IF MapHas(mapA, k) THEN MapGet(mapA, k) ELSE emptyFrom(MapGet(mapB, k).keys)
        valsB == IF MapHas(mapB, k) THEN MapGet(mapB, k) ELSE emptyFrom(MapGet(mapA, k).keys)
    IN  [fields |-> DimensionFields(dims, valsA.keys),
         clicks_a |-> valsA.clicks, clicks_b |-> valsB.clicks,
         clicks_diff |-> Diff(valsA.clicks, valsB.clicks),
         impr_a |-> valsA.impressions, impr_b |-> valsB.impressions,
         impr_diff |-> Diff(valsA.impressions, valsB.impressions),
         ctr_a |-> valsA.ctr, ctr_b |-> valsB.ctr,
         ctr_diff |-> Diff(valsA.ctr, valsB.ctr),
         pos_a |-> valsA.position, pos_b |-> valsB.position,
         pos_diff |-> Diff(valsA.position, valsB.position),
         range_a |-> rangeA, range_b |-> rangeB, compare_mode |-> compareMode]

\* the records the loop over allKeys pushes, in push order
JoinRecords(rowsA, rowsB, dims, rangeA, rangeB, compareMode) ==
    LET mapA == rowsToMap(rowsA, dims)
        mapB == rowsToMap(rowsB, dims)
        keys == AllKeys(mapA, mapB)
    IN  [n \in 1..Len(keys) |->
            JoinRecord(keys[n], mapA, mapB, dims, rangeA, rangeB, compareMode)]

----------------------------------------------------------------------------
(* The remote query endpoint *)

\* a remote that holds n rows and serves at most cap of them per response
Paged(n, cap) == [kind |-> "paged", n |-> n, cap |-> cap]

\* a remote that may answer anything
AnyRemote == [kind |-> "any", n |-> 0, cap |-> 0]

\* a remote that answers a query with a full page or with no rows
WholeRemote == [kind |-> "whole", n |-> 0, cap |-> 0]

NoRowsField == [hasRows |-> FALSE, from |-> 0, len |-> 0]

RowsFrom(from, len) == [hasRows |-> TRUE, from |-> from, len |-> len]

\* page lengths of the arbitrary remote for a request of `size` rows: empty,
\* short, one short of full, full, longer than asked for
AnyLens(size) == {0, 1, size - 1, size, size + 1}

\* the answers the remote may give to a query request
Responses(rem, req) ==
    IF rem.kind = "paged"
    THEN LET n == Min2(Min2(req.rowLimit, rem.cap), Max2(rem.n - req.startRow, 0))
         IN  {IF n = 0 THEN NoRowsField ELSE RowsFrom(req.startRow, n)}
    ELSE IF rem.kind = "whole"
    THEN {NoRowsField, RowsFrom(req.startRow, req.rowLimit)}
    ELSE {NoRowsField} \cup {RowsFrom(req.startRow, n) : n \in AnyLens(req.rowLimit)}

----------------------------------------------------------------------------
(* Input sets *)

\* the first day `today` ranges over: 2023-12-25
FirstToday == DaysFromCivil(2023, 12, 25)

\* `today` ranges over TodaySpan consecutive days from FirstToday; the
\* window holds a year boundary, 29 February 2024 and month ends of 29, 30
\* and 31 days
TodaySpan == 160

Todays == FirstToday .. (FirstToday + TodaySpan - 1)

Modes == {"last7d", "last28d", "last3mo", "last12mo", "custom", "other"}

Garbage == <<"n", "/", "a">>

\* what a date parameter can hold: undefined, '', an unparseable string, or
\* a date
CustomValues ==
    {Undef, Str(EmptyString), Str(Garbage)}
      \cup {Str(IsoDate(DaysFromCivil(2024, 1, 31))), Str(IsoDate(DaysFromCivil(2023, 3, 1)))}

SampleSite == <<"s", "c", "-", "d", "o", "m", "a", "i", "n", ":", "a">>

SampleBase == [dimensions |-> <<"page">>, searchType |-> "web",
               startDate |-> <<>>, endDate |-> <<>>,
               dimensionFilterGroups |-> NoFilterGroups]

\* a base body with a filter group
FilteredBase ==
    [SampleBase EXCEPT !.dimensionFilterGroups =
        [def |-> TRUE,
         groups |-> <<[groupType |-> "and",
                       filters |-> <<[dimension |-> "page", operator |-> "contains",
                                      expression |-> <<"a">>]>>]>>]]

FetchBases == {SampleBase, FilteredBase}

BodyRowLimits == {NoNum, Num(0), Num(50), Num(100), Num(1000), Num(30000)}

TargetLimits == {-1, 0, 1, 50, 100, 250, 1000, 30000}

SourceSizes == {0, 50, 250, 1000, 26000}

PageCaps == {100, 25000}

\* against the arbitrary remote a call is given at most MaxAnyPages pages
\* worth of target
MaxAnyPages == 3

FetchRemotes == {Paged(n, c) : n \in SourceSizes, c \in PageCaps} \cup {AnyRemote}

\* execute is run on batches of at most MaxItems items
MaxItems == 2

\* site identifiers as entered: a URL-prefix property with surrounding
\* blanks whose path holds a percent sign and a blank, a domain property, the placeholder of an empty site list, blanks
\* only, and a bare host name
ExecSites == {<<" ", "h", "t", "t", "p", "s", ":", "/", "/", "a", "/", "%", " ", "b", " ">>, <<"s", "c", "-", "d", "o", "m", "a", "i", "n", ":", "a">>, <<"_", "_", "N", "O", "_", "S", "I", "T", "E", "S", "_", "_">>, <<" ">>, <<"a", ".", "b">>}

InspectionUrls == {<<" ", "h", "t", "t", "p", "s", ":", "/", "/", "a", "/", "p">>, <<"a", "/", "p">>}

\* the date parameters of an item: a preset with unfilled pickers, a preset
\* with an unparseable end date left in its picker, custom with unfilled
\* pickers
ExecDates ==
    {[mode |-> "last7d", start |-> Str(EmptyString), end |-> Str(EmptyString)],
     [mode |-> "last7d", start |-> Str(EmptyString), end |-> Str(Garbage)],
     [mode |-> "custom", start |-> Str(EmptyString), end |-> Str(EmptyString)]}

ExecCompareModes == {"prevPeriod"}

\* a filter of the filters collection
Filter(dimension, operator, valuesJoin, expression) ==
    [dimension |-> dimension, operator |-> operator, valuesJoin |-> valuesJoin,
     expression |-> expression]

\* the filters collection of an item: no filter, or one filter on query
\* with two values
ExecFilters == {<<>>, <<Filter("query", "", "and", <<"a", ",", " ", "b">>)>>}

\* getPageInsights is run without filters
PageFilters == {<<>>}

\* entries of a filters collection: one value, several values with each
\* valuesJoin and with none, pieces that are empty or blank, no value at
\* all, a dimension other than page and query
FilterSamples ==
    {Filter("page", "", "", <<"a">>),
     Filter("query", "equals", "and", <<" ", "a", " ", ",", " ", "b", " ">>),
     Filter("query", "", "", <<"a", ",", "b", ",", ",", "c", " ">>),
     Filter("page", "notContains", "and", <<"b", ",", " ">>),
     Filter("country", "", "or", <<"a">>),
     Filter("page", "", "or", <<" ", ",", " ", ",">>),
     Filter("query", "", "or", <<>>),
     Filter("page", "", "and", <<" ", " ">>)}

\* a filters collection holds at most MaxFilters entries
MaxFilters == 2

BodyOperations == {"getPageInsights", "comparePageInsights"}

ExecDimensions == {<<>>, <<"page">>}

\* rowLimit of getPageInsights: one page, and more than the largest page
\* (minValue and maxValue bound what the editor accepts, not what an
\* expression yields); rowLimitCompare of comparePageInsights: two pages
PageRowLimits == {50, 30000}

CompareRowLimits == {1500}

\* the length of resp.siteEntry (0: the field is absent)
SiteCounts == {0, 2}

ExecToday == DaysFromCivil(2024, 3, 10)

\* the mode argument of buildCompareRanges
Policies == {"prevPeriod", "prevYear", "custom"}

\* customB as execute builds it (strings, '' for an unfilled picker), and
\* undefined
CustomBs ==
    {NoCustomB,
     CustomB("last7d", Str(EmptyString), Str(EmptyString)),
     CustomB("custom", Str(EmptyString), Str(EmptyString)),
     CustomB("custom", Str(IsoDate(DaysFromCivil(2023, 3, 1))),
             Str(IsoDate(DaysFromCivil(2024, 1, 31)))),
     CustomB("last28d", Str(EmptyString), Str(Garbage))}

\* the join is run on row sequences of at most MaxJoinRows rows each
MaxJoinRows == 2

JoinDims == {<<"page">>, <<"page", "query">>}

\* rows of a query by dims: two rows share their keys, and with two
\* dimensions two rows of different keys share the joined key
JoinRows(dims) ==
    IF Len(dims) = 1
    THEN {Row(<<"/a">>, 10, 100, 4, 3), Row(<<"/b">>, 5, 50, 2, 7), Row(<<"/a">>, 7, 70, 9, 1)}
    ELSE {Row(<<"/a", "x||y">>, 10, 100, 4, 3), Row(<<"/a||x", "y">>, 5, 50, 2, 7),
          Row(<<"/b", "x">>, 7, 70, 9, 1)}

SeqsUpTo(S, n) == UNION {[1..k -> S] : k \in 0..n}

JoinRangeA == [startDate |-> IsoDate(DaysFromCivil(2024, 3, 1)),
               endDate |-> IsoDate(DaysFromCivil(2024, 3, 10))]

JoinRangeB == [startDate |-> IsoDate(DaysFromCivil(2024, 2, 20)),
               endDate |-> IsoDate(DaysFromCivil(2024, 2, 29))]

\* custom ranges A: every start day of a window of GivenSpan days from
\* 2023-12-28 (it holds the turn of the year, 2024-02-29 and 2024-03-01)
\* with every length of GivenLengths
GivenSpan == 70

GivenStarts == DaysFromCivil(2023, 12, 28) .. (DaysFromCivil(2023, 12, 28) + GivenSpan - 1)

GivenLengths == {1, 2, 10, 29, 366}

----------------------------------------------------------------------------
(* The parts of the state a specification does not use *)

IdleDate ==
    /\ dMode = "custom"
    /\ dStart = Undef
    /\ dEnd = Undef
    /\ dpc = "idle"
    /\ dResult = Threw("")

IdleFetch ==
    /\ fSite = <<>>
    /\ fBody = [rowLimit |-> NoNum, base |-> SampleBase]
    /\ targetLimit = 0
    /\ rows = <<>>
    /\ startRow = 0
    /\ perRequest = 0
    /\ fpc = "idle"
    /\ fResult = <<>>
    /\ pageLens = <<>>

IdleExec ==
    /\ nItems = 0
    /\ i = 0
    /\ pc = "idle"
    /\ cur = NoCur
    /\ returnData = <<>>
    /\ thrown = NoError
    /\ output = <<>>
    /\ hist = <<>>

IdleCompare ==
    /\ cMode = ""
    /\ cCustomB = NoCustomB
    /\ cpc = "idle"
    /\ cResult = BuildThrew

IdleJoin ==
    /\ jDims = <<>>
    /\ jRowsA = <<>>
    /\ jRowsB = <<>>
    /\ jpc = "idle"
    /\ jOut = <<>>

IdleAgain ==
    /\ callNo = 0
    /\ firstResult = <<>>
    /\ firstLog = <<>>

IdleFilters ==
    /\ qOperation = ""
    /\ qFilters = <<>>
    /\ qpc = "idle"
    /\ qGroups = <<>>
    /\ qBody = SampleBase

----------------------------------------------------------------------------
(* Range resolution as a state machine: the arguments and the clock are    *)
(* drawn from bounded sets, one step makes the call.                       *)

DateInit ==
    /\ today \in Todays
    /\ dMode \in Modes
    /\ dStart \in CustomValues
    /\ dEnd \in CustomValues
    /\ dpc = "call"
    /\ dResult = Threw("")
    /\ IdleFetch
    /\ IdleExec
    /\ IdleCompare
    /\ IdleJoin
    /\ IdleAgain
    /\ IdleFilters
    /\ remote = AnyRemote
    /\ reqLog = <<>>

CallRangeFromPreset ==
    /\ dpc = "call"
    /\ dResult' = rangeFromPreset(dMode, dStart, dEnd, today)
    /\ dpc' = "done"
    /\ UNCHANGED <<today, dMode, dStart, dEnd>>
    /\ UNCHANGED <<fetchVars, netVars, execVars, pureVars>>

DateNext == CallRangeFromPreset

SpecDate == DateInit /\ [][DateNext]_vars

----------------------------------------------------------------------------
(* buildCompareRanges as a state machine: range A is what rangeFromPreset  *)
(* returns, as in execute; one step resolves range A, the next makes the   *)
(* call with a mode and a customB drawn from bounded sets.                 *)

CompareInit ==
    /\ \/ /\ today \in Todays
          /\ dMode \in Modes
          /\ dStart \in CustomValues
          /\ dEnd \in CustomValues
       \/ /\ today = ExecToday
          /\ dMode = "custom"
          /\ \E s \in GivenStarts, n \in GivenLengths :
                /\ dStart = Str(IsoDate(s))
                /\ dEnd = Str(IsoDate(s + n - 1))
    /\ dpc = "call"
    /\ dResult = Threw("")
    /\ cMode = ""
    /\ cCustomB = NoCustomB
    /\ cpc = "call"
    /\ cResult = BuildThrew
    /\ IdleFetch
    /\ IdleExec
    /\ IdleJoin
    /\ IdleAgain
    /\ IdleFilters
    /\ remote = AnyRemote
    /\ reqLog = <<>>

CallBuildCompareRanges ==
    /\ dpc = "done" /\ dResult.ok
    /\ cpc = "call"
    /\ \E mode \in Policies :
       \E customB \in (IF mode = "custom" THEN CustomBs ELSE {NoCustomB}) :
         /\ cMode' = mode
         /\ cCustomB' = customB
         /\ cResult' = buildCompareRanges(mode, dResult.val, customB, today)
    /\ cpc' = "done"
    /\ UNCHANGED <<dateVars, fetchVars, netVars, execVars, joinVars, againVars, filterVars>>

CompareNext == CallRangeFromPreset \/ CallBuildCompareRanges

SpecCompare == CompareInit /\ [][CompareNext]_vars

----------------------------------------------------------------------------
(* The join as a state machine: dims and the two row sequences are drawn   *)
(* from bounded sets, one step runs the join.                              *)

JoinInit ==
    /\ jDims \in JoinDims
    /\ jRowsA \in SeqsUpTo(JoinRows(jDims), MaxJoinRows)
    /\ jRowsB \in SeqsUpTo(JoinRows(jDims), MaxJoinRows)
    /\ jpc = "call"
    /\ jOut = <<>>
    /\ today = ExecToday
    /\ IdleDate
    /\ IdleFetch
    /\ IdleExec
    /\ IdleCompare
    /\ IdleAgain
    /\ IdleFilters
    /\ remote = AnyRemote
    /\ reqLog = <<>>

RunJoin ==
    /\ jpc = "call"
    /\ jOut' = JoinRecords(jRowsA, jRowsB, jDims, JoinRangeA, JoinRangeB, "prevPeriod")
    /\ jpc' = "done"
    /\ UNCHANGED <<jDims, jRowsA, jRowsB>>
    /\ UNCHANGED <<dateVars, fetchVars, netVars, execVars, cmpVars, againVars, filterVars>>

JoinNext == RunJoin

SpecJoin == JoinInit /\ [][JoinNext]_vars

----------------------------------------------------------------------------
(* The request body of an item as a state machine: the filters collection  *)
(* and the operation are drawn from bounded sets, one step builds the      *)
(* filter groups and the body the operation passes to fetchAllRows.        *)

FiltersInit ==
    /\ qOperation \in BodyOperations
    /\ qFilters \in SeqsUpTo(FilterSamples, MaxFilters)
    /\ qpc = "call"
    /\ qGroups = <<>>
    /\ qBody = SampleBase
    /\ today = ExecToday
    /\ IdleDate
    /\ IdleFetch
    /\ IdleExec
    /\ IdleCompare
    /\ IdleJoin
    /\ IdleAgain
    /\ remote = AnyRemote
    /\ reqLog = <<>>

BuildBody ==
    /\ qpc = "call"
    /\ \E groups \in {dimensionFilterGroups(qFilters)} :
         /\ qGroups' = groups
         /\ qBody' = IF qOperation = "getPageInsights"
                     THEN PageBody(JoinRangeA, <<"page">>, 1000, groups).base
                     ELSE CompareBody(JoinRangeA, <<"page">>, groups).base
    /\ qpc' = "done"
    /\ UNCHANGED <<qOperation, qFilters>>
    /\ UNCHANGED <<dateVars, fetchVars, netVars, execVars, cmpVars, joinVars, againVars>>

FiltersNext == BuildBody

SpecFilters == FiltersInit /\ [][FiltersNext]_vars

----------------------------------------------------------------------------
(* fetchAllRows as a state machine: the arguments and the remote are drawn *)
(* from bounded sets; a step is the code between two suspensions.          *)

FetchInit ==
    /\ today = FirstToday
    /\ IdleDate
    /\ IdleExec
    /\ IdleCompare
    /\ IdleJoin
    /\ callNo = 1
    /\ firstResult = <<>>
    /\ firstLog = <<>>
    /\ IdleFilters
    /\ fSite = SampleSite
    /\ fBody \in {[rowLimit |-> l, base |-> b] : l \in BodyRowLimits, b \in FetchBases}
    /\ targetLimit \in TargetLimits
    /\ remote \in FetchRemotes
    /\ remote.kind = "any" => targetLimit <= MaxAnyPages * PerRequestOf(fBody)
    /\ rows = <<>>
    /\ startRow = 0
    /\ perRequest = 0
    /\ fpc = "call"
    /\ fResult = <<>>
    /\ pageLens = <<>>
    /\ reqLog = <<>>

FetchCall ==
    /\ fpc = "call"
    /\ FetchEnter(fSite, fBody, targetLimit, <<>>)
    /\ UNCHANGED <<dateVars, pureVars, remote, execVars>>

\* the request in flight is answered
FetchResponse ==
    /\ fpc = "await"
    /\ \E resp \in Responses(remote, LastRequest) : FetchResume(resp)
    /\ UNCHANGED <<dateVars, pureVars, remote, execVars>>

\* the request in flight fails
FetchFailure ==
    /\ fpc = "await"
    /\ FetchThrow
    /\ UNCHANGED <<dateVars, pureVars, remote, execVars>>

\* the first call has returned: the caller keeps what it saw and calls
\* again with the same arguments
FetchAgain ==
    /\ fpc = "returned" /\ callNo = 1
    /\ firstResult' = fResult
    /\ firstLog' = reqLog
    /\ callNo' = 2
    /\ FetchEnter(fSite, fBody, targetLimit, <<>>)
    /\ UNCHANGED <<dateVars, cmpVars, joinVars, filterVars, remote, execVars>>

FetchNext == FetchCall \/ FetchResponse \/ FetchFailure \/ FetchAgain

SpecFetch == FetchInit /\ [][FetchNext]_vars

\* fetchAllRows with its progress: the code between two suspensions runs to
\* its end, and a request that was sent is answered or fails
SpecFetchLive ==
    /\ FetchInit
    /\ [][FetchNext]_vars
    /\ WF_vars(FetchCall)
    /\ WF_vars(FetchAgain)
    /\ WF_vars(FetchResponse \/ FetchFailure)

----------------------------------------------------------------------------
(* execute as a state machine.  An action is the code between two          *)
(* suspensions (the awaited requests).  The parameters of an item are      *)
(* drawn where the code reads them with getNodeParameter.                  *)

ExecInit ==
    /\ today = ExecToday
    /\ IdleDate
    /\ IdleFetch
    /\ IdleCompare
    /\ IdleJoin
    /\ IdleAgain
    /\ IdleFilters
    /\ remote = WholeRemote
    /\ reqLog = <<>>
    /\ nItems \in 0..MaxItems
    /\ i = 0
    /\ pc = "loop"
    /\ cur = NoCur
    /\ returnData = <<>>
    /\ thrown = NoError
    /\ output = <<>>
    /\ hist = <<>>

\* the loop condition fails: return [returnData]
Finish ==
    /\ pc = "loop" /\ i = nItems
    /\ pc' = "done"
    /\ output' = returnData
    /\ UNCHANGED <<nItems, i, cur, returnData, thrown, hist>>
    /\ UNCHANGED <<dateVars, pureVars, fetchVars, netVars>>

\* an iteration whose operation is getSites, up to its request
BeginGetSites ==
    /\ pc = "loop" /\ i < nItems
    /\ \E cof \in BOOLEAN :
         cur' = [NoCur EXCEPT !.operation = "getSites", !.continueOnFail = cof]
    /\ reqLog' = <<SitesRequest>>
    /\ pc' = "sites"
    /\ UNCHANGED <<nItems, i, returnData, thrown, output, hist>>
    /\ UNCHANGED <<dateVars, pureVars, fetchVars, remote>>

SitesResponse ==
    /\ pc = "sites"
    /\ reqLog' = SetOutcome(reqLog, "ok")
    /\ \E n \in SiteCounts :
         Completed(cur.operation, reqLog', PushGroup(returnData, SitesGroup(i, n)))
    /\ UNCHANGED <<nItems, dateVars, pureVars, fetchVars, remote>>

\* the request of getSites or inspectUrl fails
RequestFailure ==
    /\ pc \in {"sites", "inspect"}
    /\ reqLog' = SetOutcome(reqLog, "failed")
    /\ Caught(TransportError, cur.continueOnFail, cur.operation, "transport", reqLog')
    /\ UNCHANGED <<nItems, dateVars, pureVars, fetchVars, remote>>

\* an iteration whose operation is getPageInsights, up to the first request
\* of its fetch, or to the error thrown before it
BeginPageInsights ==
    /\ pc = "loop" /\ i < nItems
    /\ \E cof \in BOOLEAN, siteUrlInput \in ExecSites :
         \E v \in {validateSiteUrlOrThrow(i, siteUrlInput, "page insights")} :
             IF ~v.ok
             THEN /\ Caught(v.error, cof, "getPageInsights", "validation", <<>>)
                  /\ reqLog' = <<>>
                  /\ UNCHANGED fetchVars
             ELSE \E d \in ExecDates, rowLimit \in PageRowLimits, filters \in PageFilters :
                    \E r \in {rangeFromPreset(d.mode, d.start, d.end, today)},
                       groups \in {dimensionFilterGroups(filters)} :
                        IF ~r.ok
                        THEN /\ Caught(RangeError, cof, "getPageInsights", "range", <<>>)
                             /\ reqLog' = <<>>
                             /\ UNCHANGED fetchVars
                        ELSE /\ FetchEnter(v.site,
                                           PageBody(r.val, <<"page">>, rowLimit, groups),
                                           rowLimit, <<>>)
                             /\ cur' = [NoCur EXCEPT !.operation = "getPageInsights",
                                          !.continueOnFail = cof, !.site = v.site,
                                          !.siteInput = siteUrlInput,
                                          !.dimensions = <<"page">>, !.rowLimit = rowLimit,
                                          !.rangeA = r.val,
                                          !.dimensionFilterGroups = groups]
                             /\ pc' = "fetchP"
                             /\ UNCHANGED <<i, returnData, thrown, output, hist>>
    /\ UNCHANGED <<nItems, dateVars, pureVars, remote>>

\* fetchAllRows has returned to getPageInsights: rows.forEach(pushOk)
PageInsightsReturned ==
    /\ pc = "fetchP" /\ fpc = "returned"
    /\ Completed(cur.operation, reqLog,
                 PushGroup(returnData, RowsGroup(i, cur.dimensions, fResult)))
    /\ fpc' = "idle"
    /\ UNCHANGED <<fSite, fBody, targetLimit, rows, startRow, perRequest, fResult,
                   pageLens>>
    /\ UNCHANGED <<nItems, dateVars, pureVars, netVars>>

\* FetchRejected with a failure of the fetch for range A set aside: the
\* fetch for range B is called as after a range A without rows
FetchRejectedGoesOnToB ==
    /\ pc \in {"fetchP", "fetchA", "fetchB"} /\ fpc = "threw"
    /\ IF pc = "fetchA"
       THEN /\ cur' = [cur EXCEPT !.rowsA = <<>>]
            /\ FetchEnter(cur.site,
                          CompareBody(cur.rangeB, cur.dimensions, cur.dimensionFilterGroups),
                          cur.rowLimit, reqLog)
            /\ pc' = "fetchB"
            /\ UNCHANGED <<i, returnData, thrown, output, hist, remote>>
       ELSE /\ Caught(TransportError, cur.continueOnFail, cur.operation, "transport",
                      reqLog)
            /\ fpc' = "idle"
            /\ UNCHANGED <<fSite, fBody, targetLimit, rows, startRow, perRequest, fResult,
                           pageLens>>
            /\ UNCHANGED netVars
    /\ UNCHANGED <<nItems, dateVars, pureVars>>

\* fetchAllRows has thrown: the catch block of the iteration
FetchRejected ==
    /\ pc \in {"fetchP", "fetchA", "fetchB"} /\ fpc = "threw"
    /\ Caught(TransportError, cur.continueOnFail, cur.operation, "transport", reqLog)
    /\ fpc' = "idle"
    /\ UNCHANGED <<fSite, fBody, targetLimit, rows, startRow, perRequest, fResult,
                   pageLens>>
    /\ UNCHANGED <<nItems, dateVars, pureVars, netVars>>

InspectionUrlMessage == "Inspection URL must start with http(s)://"

\* an iteration whose operation is inspectUrl, up to its request
BeginInspect ==
    /\ pc = "loop" /\ i < nItems
    /\ \E cof \in BOOLEAN, siteUrlInput \in ExecSites :
         \E v \in {validateSiteUrlOrThrow(i, siteUrlInput, "URL inspection")} :
             IF ~v.ok
             THEN /\ Caught(v.error, cof, "inspectUrl", "validation", <<>>)
                  /\ reqLog' = <<>>
             ELSE \E url \in InspectionUrls :
                    \E inspectionUrl \in {Trim(url)} :
                        IF ~IsHttpUrl(inspectionUrl)
                        THEN /\ Caught(Error("NodeOperationError", InspectionUrlMessage, i),
                                       cof, "inspectUrl", "validation", <<>>)
                             /\ reqLog' = <<>>
                        ELSE /\ reqLog' = <<InspectRequest(v.site, inspectionUrl)>>
                             /\ cur' = [NoCur EXCEPT !.operation = "inspectUrl",
                                          !.continueOnFail = cof, !.site = v.site,
                                          !.siteInput = siteUrlInput]
                             /\ pc' = "inspect"
                             /\ UNCHANGED <<i, returnData, thrown, output, hist>>
    /\ UNCHANGED <<nItems, dateVars, pureVars, fetchVars, remote>>

InspectResponse ==
    /\ pc = "inspect"
    /\ reqLog' = SetOutcome(reqLog, "ok")
    /\ Completed(cur.operation, reqLog', PushGroup(returnData, InspectGroup(i)))
    /\ UNCHANGED <<nItems, dateVars, pureVars, fetchVars, remote>>

DimensionsMessage == "At least one dimension is required for comparison."

\* the parameters of range B read when compareMode is custom
ExecCustomB == CustomB("last28d", Str(EmptyString), Str(EmptyString))

\* an iteration whose operation is comparePageInsights, up to the first
\* request of the fetch for range A, or to the error thrown before it
BeginCompare ==
    /\ pc = "loop" /\ i < nItems
    /\ \E cof \in BOOLEAN, siteUrlInput \in ExecSites :
         \E v \in {validateSiteUrlOrThrow(i, siteUrlInput, "comparison")},
            op \in {"comparePageInsights"} :
             IF ~v.ok
             THEN /\ Caught(v.error, cof, op, "validation", <<>>)
                  /\ reqLog' = <<>>
                  /\ UNCHANGED fetchVars
             ELSE \E dims \in ExecDimensions :
                  IF Len(dims) = 0
                  THEN /\ Caught(Error("NodeOperationError", DimensionsMessage, i),
                                 cof, op, "validation", <<>>)
                       /\ reqLog' = <<>>
                       /\ UNCHANGED fetchVars
                  ELSE \E d \in ExecDates, compareMode \in ExecCompareModes,
                          rowLimit \in CompareRowLimits, filters \in ExecFilters :
                       \E rA \in {rangeFromPreset(d.mode, d.start, d.end, today)},
                          groups \in {dimensionFilterGroups(filters)} :
                       \E rB \in {IF ~rA.ok THEN BuildThrew
                                   ELSE buildCompareRanges(compareMode, rA.val,
                                          IF compareMode = "custom" THEN ExecCustomB
                                          ELSE NoCustomB,
                                          today)} :
                           IF ~rA.ok \/ ~rB.ok
                           THEN /\ Caught(RangeError, cof, op, "range", <<>>)
                                /\ reqLog' = <<>>
                                /\ UNCHANGED fetchVars
                           ELSE /\ FetchEnter(v.site, CompareBody(rA.val, dims, groups),
                                                   rowLimit, <<>>)
                                /\ cur' = [NoCur EXCEPT !.operation = op,
                                             !.continueOnFail = cof, !.site = v.site,
                                             !.siteInput = siteUrlInput,
                                             !.dimensions = dims, !.rowLimit = rowLimit,
                                             !.rangeA = rA.val, !.rangeB = rB.val.rangeB,
                                             !.compareMode = compareMode,
                                             !.dimensionFilterGroups = groups]
                                /\ pc' = "fetchA"
                                /\ UNCHANGED <<i, returnData, thrown, output, hist>>
    /\ UNCHANGED <<nItems, dateVars, pureVars, remote>>

\* the fetch for range A has returned: the fetch for range B is called
CompareAReturned ==
    /\ pc = "fetchA" /\ fpc = "returned"
    /\ cur' = [cur EXCEPT !.rowsA = fResult]
    /\ FetchEnter(cur.site,
                  CompareBody(cur.rangeB, cur.dimensions, cur.dimensionFilterGroups),
                  cur.rowLimit, reqLog)
    /\ pc' = "fetchB"
    /\ UNCHANGED <<nItems, i, returnData, thrown, output, hist>>
    /\ UNCHANGED <<dateVars, pureVars, remote>>

\* the fetch for range B has returned: the join, one record per key
CompareBReturned ==
    /\ pc = "fetchB" /\ fpc = "returned"
    /\ Completed(cur.operation, reqLog,
                 PushGroup(returnData,
                           CompareGroup(i, cur.dimensions, cur.rowsA, fResult,
                                        cur.rangeA, cur.rangeB, cur.compareMode)))
    /\ fpc' = "idle"
    /\ UNCHANGED <<fSite, fBody, targetLimit, rows, startRow, perRequest, fResult,
                   pageLens>>
    /\ UNCHANGED <<nItems, dateVars, pureVars, netVars>>

Next ==
    \/ Finish
    \/ BeginGetSites \/ SitesResponse \/ RequestFailure
    \/ BeginPageInsights \/ PageInsightsReturned
    \/ BeginInspect \/ InspectResponse
    \/ BeginCompare \/ CompareAReturned \/ CompareBReturned
    \/ FetchResponse \/ FetchFailure \/ FetchRejected

Spec == ExecInit /\ [][Next]_vars

----------------------------------------------------------------------------
(* Properties of range resolution (checked under SpecDate) *)

Provided(v) == Truthy(v) /\ ParseDate(v.s).valid

Unparseable(v) == Truthy(v) /\ ~ParseDate(v.s).valid

DayOfString(s) == ParseDate(s).day

\* year * 12 + zero-based month of a date string
MonthIndex(s) == LET c == CivilFromDays(DayOfString(s)) IN c[1] * 12 + c[2] - 1

DayPresetLength(mode) == IF mode = "last7d" THEN 7 ELSE 28

MonthPresetLength(mode) == IF mode = "last3mo" THEN 3 ELSE 12

Date_2024_03_10 == <<"2", "0", "2", "4", "-", "0", "3", "-", "1", "0">>

Date_2024_03_03 == <<"2", "0", "2", "4", "-", "0", "3", "-", "0", "3">>

Date_2024_01_03 == <<"2", "0", "2", "4", "-", "0", "1", "-", "0", "3">>

Date_2023_12_27 == <<"2", "0", "2", "3", "-", "1", "2", "-", "2", "7">>

C7_MonthPresets ==
    (dpc = "done" /\ dMode \in {"last3mo", "last12mo"} /\ dResult.ok) =>
        MonthIndex(dResult.val.startDate)
          = MonthIndex(dResult.val.endDate) - MonthPresetLength(dMode)

\* C8: for the four presets the end date is today whatever customStart and
\* customEnd are passed.
C8_PresetEndIsToday ==
    (dpc = "done" /\ dMode \in {"last7d", "last28d", "last3mo", "last12mo"}) =>
        /\ dResult.ok
        /\ dResult.val.endDate = IsoDate(today)

\* C9: in custom mode, with each of customStart and customEnd either a date,
\* undefined or the empty string, endDate is customEnd if provided and today
\* otherwise, and startDate is customStart if provided and endDate minus 28
\* days otherwise.
C9_CustomDefaults ==
    (dpc = "done" /\ dMode = "custom" /\ ~Unparseable(dStart) /\ ~Unparseable(dEnd)) =>
        /\ dResult.ok
        /\ dResult.val.endDate = (IF Provided(dEnd) THEN dEnd.s ELSE IsoDate(today))
        /\ dResult.val.startDate =
             (IF Provided(dStart) THEN dStart.s
              ELSE IsoDate((IF Provided(dEnd) THEN DayOfString(dEnd.s) ELSE today)
                             - DefaultSpanDays))

\* C10: an unparseable customStart or customEnd never makes the call fail, in
\* any mode; in custom mode the unparseable side takes its default (today for
\* the end, endDate minus 28 days for the start), and a preset with an
\* unparseable customEnd ends today.
C10_UnparseableDegrades ==
    (dpc = "done" /\ (Unparseable(dStart) \/ Unparseable(dEnd))) =>
        /\ dResult.ok
        /\ Unparseable(dEnd) => dResult.val.endDate = IsoDate(today)
        /\ (dMode = "custom" /\ Unparseable(dStart)) =>
             /\ IsIsoDateShape(dResult.val.endDate)
             /\ dResult.val.startDate
                  = IsoDate(DayOfString(dResult.val.endDate) - DefaultSpanDays)

----------------------------------------------------------------------------
(* Properties of fetchAllRows (checked under SpecFetch) *)

\* the rows number 0 .. n - 1 of the source, in source order
FirstRows(n) == IF n <= 0 THEN <<>> ELSE <<[from |-> 0, len |-> n]>>

\* C1: whatever the remote answers (pages of any length, also longer than
\* requested) and whatever the page size, a call with targetLimit >= 0
\* returns at most targetLimit rows.
C1_AtMostTargetLimit ==
    (fpc = "returned" /\ targetLimit >= 0) => RowsLen(fResult) <= targetLimit

\* a call has collected more rows than its target from a page longer than
\* requested, and returned exactly targetLimit of them
C1_Witness ==
    /\ fpc = "returned" /\ remote.kind = "any"
    /\ targetLimit > 0
    /\ \E k \in 1..Len(pageLens) : pageLens[k] > perRequest
    /\ RowsLen(rows) > targetLimit
    /\ RowsLen(fResult) = targetLimit

\* C2 as stated: against a remote holding n < targetLimit rows the call
\* returns exactly n rows, whatever page length the remote serves, and
\* makes no request after the first short or empty page; a source
\* of 250 rows served in pages of 100 with targetLimit 1000 gives 250 rows in
\* 3 requests.
C2_ShortSourceAnyPaging ==
    (fpc = "returned" /\ remote.kind = "paged" /\ remote.n < targetLimit) =>
        /\ RowsLen(fResult) = remote.n
        /\ \A k \in 1..Len(pageLens) :
             pageLens[k] < perRequest => (k = Len(pageLens) /\ Len(reqLog) = k)
        /\ (remote.n = 250 /\ remote.cap = 100 /\ targetLimit = 1000) =>
             Len(reqLog) = 3

\* C2, amended: no request follows the first short or empty page; against a
\* remote that holds n < targetLimit rows and serves pages of the requested
\* size (its own page cap is not below perRequest) the call returns exactly
\* the n rows of the source; with perRequest = 100, a source of 250 rows and
\* targetLimit 1000 it returns the 250 rows in exactly 3 requests.
C2_ShortSourceFullPages ==
    /\ \A k \in 1..Len(pageLens) :
         pageLens[k] < perRequest => (k = Len(pageLens) /\ Len(reqLog) = k)
    /\ (fpc = "returned" /\ remote.kind = "paged" /\ remote.cap >= perRequest
          /\ remote.n < targetLimit) =>
         fResult = FirstRows(remote.n)
    /\ (fpc = "returned" /\ remote.kind = "paged" /\ remote.cap >= perRequest
          /\ remote.n = 250 /\ perRequest = 100 /\ targetLimit = 1000) =>
         (RowsLen(fResult) = 250 /\ Len(reqLog) = 3)

\* the call with perRequest 100 and targetLimit 1000 against the 250-row
\* source has returned after the pages of 100, 100 and 50 rows
C2_Witness ==
    /\ fpc = "returned" /\ remote = Paged(250, 100)
    /\ perRequest = 100 /\ targetLimit = 1000
    /\ pageLens = <<100, 100, 50>>
    /\ Len(reqLog) = 3
    /\ fResult = FirstRows(250)

\* the (page size, offset) pairs of a request log
PageRequests(log) ==
    [r \in 1..Len(log) |-> [rowLimit |-> log[r].rowLimit, startRow |-> log[r].startRow]]

\* C19: a second call with the same body and targetLimit against the same
\* deterministic source returns the same rows in the same order as the
\* first, after the same sequence of (page size, offset) requests.
C19_SecondCallSame ==
    (callNo = 2 /\ fpc = "returned" /\ remote.kind = "paged") =>
        /\ fResult = firstResult
        /\ PageRequests(reqLog) = PageRequests(firstLog)

\* C19 witness: the second call has returned the same rows as the first
\* after the same three requests.
C19_Witness ==
    /\ callNo = 2 /\ fpc = "returned" /\ remote.kind = "paged"
    /\ Len(firstLog) = 3
    /\ Len(reqLog) = 3
    /\ firstResult # <<>>
    /\ fResult = firstResult

\* x clamped to lo..hi
Clamped(x, lo, hi) == IF x < lo THEN lo ELSE IF x > hi THEN hi ELSE x

\* C20: every request of a call asks for the per-page size the caller gave
\* in body.rowLimit clamped to 100..25000, for 1000 rows when it gave none:
\* never fewer than 100 nor more than 25000, whatever targetLimit is, and
\* the same number in every request of the call.
C20_PageSizeClamped ==
    \A r \in 1..Len(reqLog) :
        /\ reqLog[r].rowLimit
             = IF fBody.rowLimit.def THEN Clamped(fBody.rowLimit.n, 100, 25000) ELSE 1000
        /\ reqLog[r].rowLimit >= 100
        /\ reqLog[r].rowLimit <= 25000
        /\ reqLog[r].rowLimit = reqLog[1].rowLimit

\* C20 witness: a call with body.rowLimit 30000 and targetLimit 30000 has
\* made two requests, each for 25000 rows.
C20_Witness ==
    /\ fBody.rowLimit = Num(30000) /\ targetLimit = 30000
    /\ Len(reqLog) = 2
    /\ reqLog[1].rowLimit = 25000 /\ reqLog[2].rowLimit = 25000
    /\ reqLog[2].startRow = 25000

----------------------------------------------------------------------------
(* Properties of buildCompareRanges *)

IsDateString(s) == ParseDate(s).valid

\* a DateRange: two dates, the first not after the second
WellFormed(r) ==
    /\ IsDateString(r.startDate) /\ IsDateString(r.endDate)
    /\ DayOfString(r.startDate) <= DayOfString(r.endDate)

\* the number of days of a well-formed range, both ends counted
LengthOf(r) == DayOfString(r.endDate) - DayOfString(r.startDate) + 1

IsFeb29(s) == SubSeq(s, 5, 10) = <<"-", "0", "2", "-", "2", "9">>

Date_2024_03_01 == <<"2", "0", "2", "4", "-", "0", "3", "-", "0", "1">>

Date_2024_02_29 == <<"2", "0", "2", "4", "-", "0", "2", "-", "2", "9">>

Date_2024_02_20 == <<"2", "0", "2", "4", "-", "0", "2", "-", "2", "0">>

Date_2023_03_01 == <<"2", "0", "2", "3", "-", "0", "3", "-", "0", "1">>

Date_2023_03_10 == <<"2", "0", "2", "3", "-", "0", "3", "-", "1", "0">>

ExampleRangeA == [startDate |-> Date_2024_03_01, endDate |-> Date_2024_03_10]

SameDayYearBefore(s, sB) ==
    /\ IsIsoDateShape(sB)
    /\ Num4(sB, 1) = Num4(s, 1) - 1
    /\ SubSeq(sB, 5, 10) = SubSeq(s, 5, 10)

C13_AlwaysTwoRanges ==
    cpc = "done" =>
        /\ cResult.ok
        /\ cResult.val.rangeA = dResult.val
        /\ WellFormed(cResult.val.rangeA)
        /\ WellFormed(cResult.val.rangeB)

----------------------------------------------------------------------------
(* Properties of the join.  The RowKey of a row is its dimension values    *)
(* joined into one string.                                                 *)

RowKeysOf(rs) == {JoinKeys(rs[k].keys) : k \in 1..Len(rs)}

\* the RowKey a record carries in its dimension fields
RecordKey(rec) == JoinKeys([f \in 1..Len(rec.fields) |-> rec.fields[f].value])

\* the row of rs that a map of rs holds for key k: the last one with it
LastRowWith(rs, k) ==
    rs[CHOOSE n \in 1..Len(rs) :
         /\ JoinKeys(rs[n].keys) = k
         /\ \A later \in (n + 1)..Len(rs) : JoinKeys(rs[later].keys) # k]

\* C14: the join pushes exactly one record per RowKey that occurs in rowsA
\* or rowsB: as many records as the union of the two key sets has
\* elements, and for every key of the union exactly one record that
\* carries it.
C14_OneRecordPerKey ==
    jpc = "done" =>
        /\ Len(jOut) = Cardinality(RowKeysOf(jRowsA) \cup RowKeysOf(jRowsB))
        /\ \A k \in RowKeysOf(jRowsA) \cup RowKeysOf(jRowsB) :
             Cardinality({n \in 1..Len(jOut) : RecordKey(jOut[n]) = k}) = 1

\* C14 witness: the join has run on sides that share a key, hold a key
\* twice on one side and hold a key of their own.
C14_Witness ==
    /\ jpc = "done"
    /\ Len(jRowsA) = 2 /\ Len(jRowsB) = 2
    /\ RowKeysOf(jRowsA) \cap RowKeysOf(jRowsB) # {}
    /\ RowKeysOf(jRowsB) \ RowKeysOf(jRowsA) # {}
    /\ Cardinality(RowKeysOf(jRowsA)) = 1
    /\ Len(jOut) = 2

ExampleRowA == Row(<<"/a">>, 10, 100, 4, 3)

ExampleRowB == Row(<<"/b">>, 5, 50, 2, 7)

\* C15: a record for a RowKey that only one side has carries 0 in all
\* four metrics of the other side and, in its dimension fields, the
\* dimension values of the row that exists; rowsA = [/a, clicks 10] and
\* rowsB = [/b, clicks 5] give two records, clicks 10, 0, 10 and 0, 5, -5.
C15_OneSidedZeroFilled ==
    jpc = "done" =>
        /\ \A n \in 1..Len(jOut) :
             LET k == RecordKey(jOut[n])
             IN  /\ (k \in RowKeysOf(jRowsA) /\ k \notin RowKeysOf(jRowsB)) =>
                       /\ jOut[n].clicks_b = 0 /\ jOut[n].impr_b = 0
                       /\ jOut[n].ctr_b = 0 /\ jOut[n].pos_b = 0
                       /\ jOut[n].fields
                            = DimensionFields(jDims, LastRowWith(jRowsA, k).keys)
                 /\ (k \in RowKeysOf(jRowsB) /\ k \notin RowKeysOf(jRowsA)) =>
                       /\ jOut[n].clicks_a = 0 /\ jOut[n].impr_a = 0
                       /\ jOut[n].ctr_a = 0 /\ jOut[n].pos_a = 0
                       /\ jOut[n].fields
                            = DimensionFields(jDims, LastRowWith(jRowsB, k).keys)
        /\ \A k \in (RowKeysOf(jRowsA) \cup RowKeysOf(jRowsB))
                      \ (RowKeysOf(jRowsA) \cap RowKeysOf(jRowsB)) :
             \E n \in 1..Len(jOut) : RecordKey(jOut[n]) = k
        /\ (jRowsA = <<ExampleRowA>> /\ jRowsB = <<ExampleRowB>>) =>
             /\ Len(jOut) = 2
             /\ \E n \in 1..2 : /\ jOut[n].clicks_a = 10 /\ jOut[n].clicks_b = 0
                                 /\ jOut[n].clicks_diff = 10
             /\ \E n \in 1..2 : /\ jOut[n].clicks_a = 0 /\ jOut[n].clicks_b = 5
                                 /\ jOut[n].clicks_diff = -5

\* C15 witness: the join of [/a, clicks 10] with [/b, clicks 5] has pushed
\* its two records, the second one for the key only rowsB has.
C15_Witness ==
    /\ jpc = "done"
    /\ jRowsA = <<ExampleRowA>> /\ jRowsB = <<ExampleRowB>>
    /\ Len(jOut) = 2
    /\ jOut[2].fields = <<[name |-> "page", value |-> "/b"]>>
    /\ jOut[2].clicks_a = 0 /\ jOut[2].clicks_b = 5 /\ jOut[2].clicks_diff = -5

\* the row a side contributes for key k: the row its map holds, zeros if
\* the side does not have the key
SideRow(rs, k) == IF k \in RowKeysOf(rs) THEN LastRowWith(rs, k) ELSE Row(<<>>, 0, 0, 0, 0)

\* C16: in every record the _a and _b fields are the metrics of the rows
\* matched under its key, as they are, and every _diff field is the _a
\* value minus the _b value.
C16_DiffIsAMinusB ==
    jpc = "done" =>
        \A n \in 1..Len(jOut) :
            LET a == SideRow(jRowsA, RecordKey(jOut[n]))
                b == SideRow(jRowsB, RecordKey(jOut[n]))
            IN  /\ jOut[n].clicks_a = a.clicks /\ jOut[n].clicks_b = b.clicks
                /\ jOut[n].impr_a = a.impressions /\ jOut[n].impr_b = b.impressions
                /\ jOut[n].ctr_a = a.ctr /\ jOut[n].ctr_b = b.ctr
                /\ jOut[n].pos_a = a.position /\ jOut[n].pos_b = b.position
                /\ jOut[n].clicks_diff = a.clicks - b.clicks
                /\ jOut[n].impr_diff = a.impressions - b.impressions
                /\ jOut[n].ctr_diff = a.ctr - b.ctr
                /\ jOut[n].pos_diff = a.position - b.position

\* C16 witness: a record of two matched rows whose range-B metrics exceed
\* the range-A metrics in clicks and fall below them in position, so that
\* the differences have both signs.
C16_Witness ==
    /\ jpc = "done"
    /\ \E n \in 1..Len(jOut) :
         /\ jOut[n].clicks_a = 7 /\ jOut[n].clicks_b = 10 /\ jOut[n].clicks_diff = -3
         /\ jOut[n].pos_a = 1 /\ jOut[n].pos_b = 3 /\ jOut[n].pos_diff = -2
         /\ jOut[n].ctr_a = 9 /\ jOut[n].ctr_b = 4 /\ jOut[n].ctr_diff = 5

----------------------------------------------------------------------------
(* Properties of execute.  hist[k] is what became of item k - 1: every     *)
(* iteration appends one entry, in index order.                            *)

\* the positions in returnData of the groups paired with item k
ItemGroups(k) == {g \in 1..Len(returnData) : returnData[g].item = k}

FetchOperations == {"getPageInsights", "comparePageInsights"}

HasFailedRequest(h) == \E r \in 1..Len(h.requests) : h.requests[r] = "failed"

\* C3: when a page request of a fetch fails, no further request is made for
\* the item (the error leaves fetchAllRows at once and reaches the catch
\* block as the item's failure), and no data record is paired with the
\* item, whatever pages had been collected in the fetch for the range or,
\* in a comparison, for either range; while a fetch is under way nothing is
\* emitted for its item.
C3_FailedFetchEmitsNothing ==
    /\ \A k \in 1..Len(hist) :
         (hist[k].operation \in FetchOperations /\ HasFailedRequest(hist[k])) =>
            /\ \A r \in 1..Len(hist[k].requests) :
                 hist[k].requests[r] = "failed" => r = Len(hist[k].requests)
            /\ hist[k].failure = "transport"
            /\ \A g \in ItemGroups(k - 1) : returnData[g].kind = "error"
    /\ pc \in {"fetchP", "fetchA", "fetchB"} => ItemGroups(i) = {}

\* C3 witness: a comparison whose range A was fetched in full and whose
\* fetch for range B failed on its second page, and a getPageInsights after
\* it whose fetch failed on its second page.
C3_Witness ==
    /\ Len(hist) = 2
    /\ hist[1].operation = "comparePageInsights"
    /\ hist[1].requests = <<"ok", "ok", "ok", "failed">>
    /\ hist[2].operation = "getPageInsights"
    /\ hist[2].requests = <<"ok", "failed">>
    /\ ItemGroups(0) # {}

\* C4: an item whose iteration threw (validation or transport error, or
\* any other) with the continue-on-failure flag set leaves exactly one
\* record {error: message} paired with it and the loop goes on to the next
\* item; with the flag not set execute ends with that error at that item:
\* no later item is processed and nothing is returned.
C4_ContinueOrAbort ==
    /\ \A k \in 1..Len(hist) :
         hist[k].failure # "none" =>
            IF hist[k].continueOnFail
            THEN /\ Cardinality(ItemGroups(k - 1)) = 1
                 /\ \A g \in ItemGroups(k - 1) :
                      /\ returnData[g].kind = "error"
                      /\ returnData[g].count = 1
                      /\ returnData[g].message = hist[k].error.message
                 /\ i >= k
                 /\ pc = "aborted" => k < Len(hist)
            ELSE /\ pc = "aborted"
                 /\ k = Len(hist)
                 /\ i = k - 1
                 /\ thrown = hist[k].error
                 /\ output = <<>>
    /\ pc = "aborted" =>
         /\ hist # <<>>
         /\ hist[Len(hist)].failure # "none"
         /\ ~hist[Len(hist)].continueOnFail
    /\ pc = "done" => output = returnData /\ thrown = NoError

\* C4 witness: item 0 failed validation with the flag set and left its
\* error record, item 1 was then processed and failed in transport with the
\* flag not set, which ended execute.
C4_Witness ==
    /\ Len(hist) = 2
    /\ hist[1].failure = "validation" /\ hist[1].continueOnFail
    /\ hist[2].failure = "transport" /\ ~hist[2].continueOnFail
    /\ nItems >= 2
    /\ pc = "aborted"
    /\ Len(returnData) = 1

\* C5: an item that failed validation (site identifier, inspection URL,
\* dimension list) made no request, and its error is a NodeOperationError
\* that carries the item's index.
C5_ValidationBeforeRequests ==
    \A k \in 1..Len(hist) :
        hist[k].failure = "validation" =>
            /\ hist[k].operation \in {"getPageInsights", "inspectUrl", "comparePageInsights"}
            /\ hist[k].requests = <<>>
            /\ hist[k].error.type = "NodeOperationError"
            /\ hist[k].error.itemIndex = k - 1

\* C5 witness: item 1 failed validation of its site identifier after item
\* 0 had made its requests.
C5_Witness ==
    /\ Len(hist) = 2
    /\ hist[1].requests # <<>>
    /\ hist[2].failure = "validation"
    /\ hist[2].error.message = SiteFormatMessage

\* what C17 says of a state
ItemsOneByOne ==
    \* the records pushed belong to items before the current one, in order
    /\ \A g \in 1..Len(returnData) : returnData[g].item \in 0..(i - 1)
    /\ \A g, h \in 1..Len(returnData) :
         g < h => returnData[g].item <= returnData[h].item
    \* every item before the current one is over, and none after it began
    /\ Len(hist) = IF pc = "aborted" THEN i + 1 ELSE i
    \* between items no request is in flight, and never more than one
    /\ pc = "loop" => \A r \in 1..Len(reqLog) : reqLog[r].outcome # "sent"
    /\ \A r \in 1..Len(reqLog) : reqLog[r].outcome = "sent" => r = Len(reqLog)
    /\ i \in 0..nItems

\* what C17 says of a step: the records it pushes are paired with the item
\* of the iteration that pushes them, and the index moves on by one at most
PushesPairedWithCurrent ==
    /\ Len(returnData') >= Len(returnData)
    /\ SubSeq(returnData', 1, Len(returnData)) = returnData
    /\ \A g \in (Len(returnData) + 1)..Len(returnData') : returnData'[g].item = i
    /\ i' \in {i, i + 1}
    /\ \A r \in 1..Len(reqLog') :
         (reqLog'[r].outcome = "sent" /\ pc = "loop") => i' = i

\* C17: items are processed in index order, an item being over (its
\* requests answered, its records pushed) before the next one makes its
\* first request; the records are grouped by item with non-decreasing
\* pairedItem, and each record is paired with the item that produced it.
C17_ItemsInOrder == []ItemsOneByOne /\ [][PushesPairedWithCurrent]_vars

\* C17 witness: execute has returned the records of two items, item 0
\* first, both of which made requests.
C17_Witness ==
    /\ pc = "done"
    /\ Len(hist) = 2
    /\ hist[1].requests # <<>> /\ hist[2].requests # <<>>
    /\ Len(returnData) = 2
    /\ returnData[1].item = 0 /\ returnData[1].kind = "compare"
    /\ returnData[2].item = 1 /\ returnData[2].kind = "rows"

FailedCount(requests) == Cardinality({r \in 1..Len(requests) : requests[r] = "failed"})

\* C18: no request is retried.  A failed request is the last request of
\* its item; the requests of one fetch ask for strictly increasing offsets,
\* so that no page is asked for twice; an item with a failed request has
\* exactly one, and its operation failed with the error of that request.
C18_NoRetry ==
    /\ \A r \in 1..Len(reqLog) : reqLog[r].outcome = "failed" => r = Len(reqLog)
    /\ \A r, s \in 1..Len(reqLog) :
         (r < s /\ reqLog[r].api = "query" /\ reqLog[s].api = "query"
            /\ reqLog[r].base = reqLog[s].base) => reqLog[r].startRow < reqLog[s].startRow
    /\ \A k \in 1..Len(hist) :
         HasFailedRequest(hist[k]) =>
            /\ FailedCount(hist[k].requests) = 1
            /\ hist[k].requests[Len(hist[k].requests)] = "failed"
            /\ hist[k].failure = "transport"
            /\ hist[k].error = TransportError
    /\ fpc = "threw" => reqLog[Len(reqLog)].outcome = "failed"

\* C18 witness: a getPageInsights whose second page request failed; execute
\* ended with the error of that request.
C18_Witness ==
    /\ pc = "aborted"
    /\ Len(hist) = 1
    /\ hist[1].operation = "getPageInsights"
    /\ hist[1].requests = <<"ok", "failed">>
    /\ thrown = TransportError

----------------------------------------------------------------------------
(* Further properties of buildCompareRanges (checked under SpecCompare) *)

Date_2023_06_01 == <<"2", "0", "2", "3", "-", "0", "6", "-", "0", "1">>

Date_2023_06_30 == <<"2", "0", "2", "3", "-", "0", "6", "-", "3", "0">>

\* ranges A other than the one of the call: another month, the example
\* range, empty dates, unparseable dates
OtherRangesA ==
    {[startDate |-> Date_2023_06_01, endDate |-> Date_2023_06_30],
     ExampleRangeA,
     NoRange,
     [startDate |-> Garbage, endDate |-> Garbage]}

\* C21: with mode custom the call returns as range B what
\* rangeFromPreset(customB.mode, customB.start, customB.end) returns on the
\* same day (and throws what it throws), and a call with the same customB on
\* the same day with any other range A returns the same range B.
C21_CustomIndependentOfA ==
    (cpc = "done" /\ cMode = "custom") =>
        LET r == rangeFromPreset(cCustomB.mode, cCustomB.start, cCustomB.end, today)
        IN  /\ cResult.ok = r.ok
            /\ cResult.ok => cResult.val.rangeB = r.val
            /\ \A rA \in OtherRangesA :
                  LET other == buildCompareRanges("custom", rA, cCustomB, today)
                  IN  /\ other.ok = cResult.ok
                      /\ other.val.rangeB = cResult.val.rangeB

\* C21 witness: a custom call whose customB has no end date has returned a
\* range B that ends today, for a range A that ends on another day.
C21_Witness ==
    /\ cpc = "done" /\ cMode = "custom"
    /\ ~Truthy(cCustomB.end)
    /\ cResult.ok
    /\ cResult.val.rangeB.endDate = IsoDate(today)
    /\ IsDateString(dResult.val.endDate)
    /\ dResult.val.endDate # IsoDate(today)

----------------------------------------------------------------------------
(* Further properties of execute (checked under Spec) *)

\* the characters encodeURIComponent escapes
EscapedChars == {" ", "#", "%", "&", "+", "/", ":", "=", "?", "@"}

\* the path segment as the remote reads it: every %XX escape replaced by
\* the character it stands for
RECURSIVE DecodedSegment(_)
DecodedSegment(s) ==
    IF s = <<>> THEN <<>>
    ELSE IF s[1] = "%" /\ Len(s) >= 3
                /\ \E c \in EscapedChars : EscapeOf(c) = SubSeq(s, 1, 3)
         THEN <<CHOOSE c \in EscapedChars : EscapeOf(c) = SubSeq(s, 1, 3)>>
                \o DecodedSegment(SubSeq(s, 4, Len(s)))
         ELSE <<s[1]>> \o DecodedSegment(Tail(s))

\* the identifier a request names: the site segment of the query URL read
\* back from its escapes, the siteUrl field of the inspect body
SiteSent(req) == IF req.api = "query" THEN DecodedSegment(req.site) ELSE req.site

\* surrounding whitespace removed, nothing else: s from its first to its
\* last character that is not a blank
Stripped(s) ==
    LET solid == {k \in 1..Len(s) : s[k] # " "}
    IN  IF solid = {} THEN <<>>
        ELSE SubSeq(s, CHOOSE k \in solid : \A j \in solid : k <= j,
                       CHOOSE k \in solid : \A j \in solid : k >= j)

\* C22: every query and inspect request of an item names the property
\* identifier the item supplied, with its surrounding whitespace removed and
\* no other change: a URL-prefix identifier is sent as a URL-prefix
\* identifier, a domain identifier as a domain identifier.
C22_IdentifierPreserved ==
    cur.operation # "" =>
        \A supplied \in {Stripped(cur.siteInput)} :
        \A r \in 1..Len(reqLog) :
            reqLog[r].api \in {"query", "inspect"} =>
                \A sent \in {SiteSent(reqLog[r])} :
                    /\ sent = supplied
                    /\ IsHttpUrl(sent) <=> IsHttpUrl(supplied)
                    /\ IsDomainProperty(sent) <=> IsDomainProperty(supplied)
                    /\ IsHttpUrl(sent) \/ IsDomainProperty(sent)

\* C22 witness: a comparison for a URL-prefix identifier entered with
\* surrounding blanks, a percent sign and a blank in its path has sent the
\* second request of its fetch for range B.
C22_Witness ==
    /\ pc = "fetchB"
    /\ cur.siteInput
         = <<" ", "h", "t", "t", "p", "s", ":", "/", "/", "a", "/", "%", " ", "b", " ">>
    /\ Len(reqLog) >= 4
    /\ reqLog[Len(reqLog)].site
         = <<"h", "t", "t", "p", "s", "%", "3", "A", "%", "2", "F", "%", "2", "F", "a",
             "%", "2", "F", "%", "2", "5", "%", "2", "0", "b">>

----------------------------------------------------------------------------
(* Further properties of fetchAllRows (checked under SpecFetch) *)

\* the total length of the first k pages received
RECURSIVE ReceivedIn(_, _)
ReceivedIn(lens, k) == IF k = 0 THEN 0 ELSE lens[k] + ReceivedIn(lens, k - 1)

\* C23: the requests of a call go out one after another, each after the
\* answer to the one before; the first asks for offset 0 and every request
\* for the offset that is the number of rows received in all earlier pages
\* of the call (the last request is compared with the total, every request
\* with its predecessor), so that offsets strictly increase and none is
\* asked for twice.
C23_SequentialOffsets ==
    /\ Len(reqLog) \in {Len(pageLens), Len(pageLens) + 1}
    /\ \A r \in 1..Len(reqLog) :
          /\ r <= Len(pageLens) => reqLog[r].outcome = "ok"
          /\ r > Len(pageLens) => reqLog[r].outcome \in {"sent", "failed"}
          /\ r > 1 =>
                /\ reqLog[r].startRow = reqLog[r - 1].startRow + pageLens[r - 1]
                /\ reqLog[r].startRow > reqLog[r - 1].startRow
    /\ reqLog # <<>> =>
          /\ reqLog[1].startRow = 0
          /\ reqLog[Len(reqLog)].startRow = ReceivedIn(pageLens, Len(reqLog) - 1)
    /\ fpc = "await" => startRow = reqLog[Len(reqLog)].startRow

\* C23 witness: after a first page one row longer than requested and a
\* second page of the requested length the third request asks for the
\* offset that is the sum of both.
C23_Witness ==
    /\ fpc = "await" /\ remote.kind = "any"
    /\ Len(reqLog) = 3
    /\ pageLens = <<perRequest + 1, perRequest>>
    /\ reqLog[2].startRow = perRequest + 1
    /\ reqLog[3].startRow = 2 * perRequest + 1

\* C24: against a source of N rows whose remote answers a request for
\* `size` rows from `offset` with the source rows offset .. offset + size - 1
\* (fewer at the end of the data), a call with targetLimit >= 0 returns
\* exactly the rows 0 .. min(targetLimit, N) - 1 of the source, in source
\* order, each once.
C24_FirstRowsOfSource ==
    (fpc = "returned" /\ remote.kind = "paged" /\ remote.cap >= perRequest
       /\ targetLimit >= 0) =>
        /\ fResult = FirstRows(Min2(targetLimit, remote.n))
        /\ RowsLen(fResult) = Min2(targetLimit, remote.n)

\* C24 witness: from a source of 1000 rows a call with targetLimit 250 has
\* collected three pages of 100 rows and returned the first 250 rows.
C24_Witness ==
    /\ fpc = "returned" /\ remote.kind = "paged" /\ remote.cap >= perRequest
    /\ remote.n = 1000 /\ targetLimit = 250
    /\ pageLens = <<100, 100, 100>>
    /\ rows = FirstRows(300)
    /\ fResult = FirstRows(250)

\* what C25 says of a state: every request of the call carries the base of
\* the body the call was given (dimensions, dates, filter groups, search
\* type) and, as rowLimit and startRow, the page size and the offset of
\* the fetcher
BaseHeldConstant ==
    \A r \in 1..Len(reqLog) :
        /\ reqLog[r].base = fBody.base
        /\ reqLog[r].base = reqLog[1].base
        /\ reqLog[r].rowLimit = perRequest
        /\ fpc = "await" /\ r = Len(reqLog) => reqLog[r].startRow = startRow

\* what C25 says of a step: the body the caller passed is left as it was
BodyLeftUnmodified == fBody' = fBody

\* C25: all requests of a call carry the same base body, only rowLimit
\* and startRow being set by the fetcher, and the body object of the caller
\* is not modified by the call.
C25_BaseBodyConstant == []BaseHeldConstant /\ [][BodyLeftUnmodified]_vars

\* C25 witness: a call given a body with a filter group and rowLimit 50
\* has made three requests for 100 rows each; the body still says 50.
C25_Witness ==
    /\ fpc = "returned"
    /\ Len(reqLog) = 3
    /\ fBody.rowLimit = Num(50)
    /\ fBody.base.dimensionFilterGroups.def
    /\ \A r \in 1..3 : reqLog[r].rowLimit = 100 /\ reqLog[r].base = FilteredBase
    /\ reqLog[3].startRow = 200

----------------------------------------------------------------------------
(* Further properties of the join (checked under SpecJoin) *)

\* the rows of both sides
RowsOfBothSides ==
    {jRowsA[k] : k \in 1..Len(jRowsA)} \cup {jRowsB[k] : k \in 1..Len(jRowsB)}

\* C26: two rows of the two fetches (same dimension list) have equal
\* RowKeys (keyFromRow) if and only if their tuples of dimension values are
\* equal, also for values that contain '|' or are empty.
C26_KeyEqualIffTupleEqual ==
    jpc = "done" =>
        \A r, s \in RowsOfBothSides :
            (keyFromRow(jDims, r) = keyFromRow(jDims, s)) <=> (r.keys = s.keys)

----------------------------------------------------------------------------
(* Properties of the dimension filters (checked under SpecFilters) *)

\* the comma-separated values of an expression that are not empty, counted
\* where they begin: at a character that is neither a comma nor a blank and
\* is preceded, back to the last comma or the start, by blanks only
ValueStarts(e) ==
    {k \in 1..Len(e) :
        /\ e[k] \notin {",", " "}
        /\ \A j \in 1..(k - 1) :
              (\A m \in j..(k - 1) : e[m] # ",") => e[j] = " "}

\* the filter contributes a group
Contributes(f) == f.dimension \in {"page", "query"} /\ ValueStarts(f.expression) # {}

\* the group type of a contributing filter
ExpectedGroupType(f) ==
    IF Cardinality(ValueStarts(f.expression)) = 1 THEN "and"
    ELSE IF f.valuesJoin = "" THEN "or" ELSE f.valuesJoin

\* C27: the body holds a dimensionFilterGroups field only when a group was
\* built, and then the groups built; a filter with no non-empty value or
\* with a dimension other than page and query contributes no group; every
\* other filter contributes exactly one, in the order of the filters, of
\* type 'and' for a single value and of the filter's valuesJoin for several,
\* holding one filter of the filter's dimension per value.
C27_FilterGroups ==
    qpc = "done" =>
        LET contributors == SelectSeq(qFilters, Contributes)
        IN  /\ qBody.dimensionFilterGroups.def <=> Len(qGroups) > 0
            /\ qBody.dimensionFilterGroups.def =>
                  qBody.dimensionFilterGroups.groups = qGroups
            /\ Len(qGroups) = Len(contributors)
            /\ \A g \in 1..Len(contributors) :
                  /\ qGroups[g].groupType = ExpectedGroupType(contributors[g])
                  /\ Len(qGroups[g].filters)
                       = Cardinality(ValueStarts(contributors[g].expression))
                  /\ \A v \in 1..Len(qGroups[g].filters) :
                        /\ qGroups[g].filters[v].dimension = contributors[g].dimension
                        /\ qGroups[g].filters[v].expression # <<>>
                        /\ \A c \in 1..Len(qGroups[g].filters[v].expression) :
                              qGroups[g].filters[v].expression[c] # ","

\* C27 witness: of a filter on country and a filter on page with the one
\* value 'b' and valuesJoin 'and' the body holds the one group of the
\* second, of type 'and' with one filter.
C27_Witness ==
    /\ qpc = "done"
    /\ qFilters = <<Filter("country", "", "or", <<"a">>),
                    Filter("page", "notContains", "and", <<"b", ",", " ">>)>>
    /\ qBody.dimensionFilterGroups.def
    /\ qGroups = <<FilterGroup("and", <<makeFilter("page", "notContains", <<"b">>)>>)>>

----------------------------------------------------------------------------
(* Termination of fetchAllRows (checked under SpecFetchLive) *)

\* ceil(a / b) for b > 0
CeilDiv(a, b) == (a + b - 1) \div b

\* what C28 says of a state: the number of requests the call has issued
RequestsBounded ==
    fpc # "call" =>
        /\ targetLimit <= 0 => reqLog = <<>>
        /\ targetLimit > 0 => Len(reqLog) <= CeilDiv(targetLimit, perRequest)

FetchEnded == fpc \in {"returned", "threw"}

\* C28: every call ends (returns or throws) whatever the remote answers,
\* after at most ceil(targetLimit / perRequest) requests, perRequest being
\* the clamped page size; with targetLimit <= 0 it issues no request.
C28_TerminatesWithinBound ==
    /\ []RequestsBounded
    /\ (fpc \in {"call", "await"}) ~> FetchEnded

\* C28 witness: against a remote that answers with pages longer than
\* requested a call with targetLimit 250 and page size 100 has returned
\* after ceil(250 / 100) = 3 requests.
C28_Witness ==
    /\ fpc = "returned" /\ remote.kind = "any"
    /\ targetLimit = 250 /\ perRequest = 100
    /\ Len(reqLog) = 3
    /\ pageLens = <<100, 100, 100>>

----------------------------------------------------------------------------
(* The two fetches of comparePageInsights (checked under Spec) *)

\* the date range a query request asks for
RangeOf(req) == [startDate |-> req.base.startDate, endDate |-> req.base.endDate]

\* what a query request carries besides its date range and its offset
SharedOf(req) ==
    [site |-> req.site, rowLimit |-> req.rowLimit, dimensions |-> req.base.dimensions,
     searchType |-> req.base.searchType,
     dimensionFilterGroups |-> req.base.dimensionFilterGroups]

\* C29: the requests of a comparison for range A all come before its first
\* request for range B and have all been answered by then; the requests of
\* both fetches carry the same dimensions, search type, filter groups (and
\* site and page size), both fetches are given the same target limit, and
\* they differ in the date range; after a failed request for range A no
\* request for range B is made.
C29_FetchAThenFetchB ==
    /\ \A r \in 1..Len(reqLog) :
          reqLog[r].api = "query" =>
            /\ SharedOf(reqLog[r]) = SharedOf(reqLog[1])
            /\ RangeOf(reqLog[r]) # RangeOf(reqLog[1]) =>
                  \A s \in 1..Len(reqLog) :
                      RangeOf(reqLog[s]) = RangeOf(reqLog[1]) =>
                          (s < r /\ reqLog[s].outcome = "ok")
    /\ pc = "fetchA" =>
          /\ targetLimit = cur.rowLimit
          /\ \A r \in 1..Len(reqLog) : RangeOf(reqLog[r]) = cur.rangeA
    /\ pc = "fetchB" =>
          /\ targetLimit = cur.rowLimit
          /\ cur.rangeA # cur.rangeB
          /\ reqLog # <<>>
          /\ RangeOf(reqLog[1]) = cur.rangeA
          /\ \A r \in 1..Len(reqLog) : RangeOf(reqLog[r]) \in {cur.rangeA, cur.rangeB}
          /\ fpc \in {"await", "threw"} => RangeOf(reqLog[Len(reqLog)]) = cur.rangeB

\* C29 witness: a comparison with a filter group has fetched two pages for
\* range A and awaits the second page for range B.
C29_Witness ==
    /\ pc = "fetchB" /\ fpc = "await"
    /\ Len(reqLog) = 4
    /\ cur.dimensionFilterGroups # <<>>
    /\ RangeOf(reqLog[2]) = cur.rangeA /\ reqLog[2].startRow = 1000
    /\ RangeOf(reqLog[3]) = cur.rangeB /\ reqLog[3].startRow = 0
    /\ RangeOf(reqLog[4]) = cur.rangeB /\ reqLog[4].startRow = 1000
    /\ reqLog[4].base.dimensionFilterGroups = reqLog[1].base.dimensionFilterGroups

----------------------------------------------------------------------------
(* Rows of one side that share their RowKey (checked under SpecJoin) *)

\* the positions of the rows of rs with RowKey k
RowsWithKey(rs, k) == {n \in 1..Len(rs) : JoinKeys(rs[n].keys) = k}

\* the metrics of a row
MetricsOf(row) == <<row.clicks, row.impressions, row.ctr, row.position>>

\* C30: when a side holds several rows with one RowKey, the join emits a
\* single record for that key, and the record carries for that side the
\* metrics of the last of these rows: the earlier ones are dropped, not
\* added up.
C30_LastRowWins ==
    jpc = "done" =>
        /\ \A k \in RowKeysOf(jRowsA) :
              Cardinality(RowsWithKey(jRowsA, k)) > 1 =>
                /\ Cardinality({n \in 1..Len(jOut) : RecordKey(jOut[n]) = k}) = 1
                /\ \A n \in 1..Len(jOut) :
                      RecordKey(jOut[n]) = k =>
                        \A last \in {CHOOSE p \in RowsWithKey(jRowsA, k) :
                                         \A q \in RowsWithKey(jRowsA, k) : q <= p} :
                            <<jOut[n].clicks_a, jOut[n].impr_a, jOut[n].ctr_a, jOut[n].pos_a>>
                              = MetricsOf(jRowsA[last])
        /\ \A k \in RowKeysOf(jRowsB) :
              Cardinality(RowsWithKey(jRowsB, k)) > 1 =>
                /\ Cardinality({n \in 1..Len(jOut) : RecordKey(jOut[n]) = k}) = 1
                /\ \A n \in 1..Len(jOut) :
                      RecordKey(jOut[n]) = k =>
                        \A last \in {CHOOSE p \in RowsWithKey(jRowsB, k) :
                                         \A q \in RowsWithKey(jRowsB, k) : q <= p} :
                            <<jOut[n].clicks_b, jOut[n].impr_b, jOut[n].ctr_b, jOut[n].pos_b>>
                              = MetricsOf(jRowsB[last])

\* C30 witness: range A holds /a twice, with 10 and then 7 clicks, range B
\* holds it once with 10: the one record says 7 clicks for range A.
C30_Witness ==
    /\ jpc = "done"
    /\ jRowsA = <<Row(<<"/a">>, 10, 100, 4, 3), Row(<<"/a">>, 7, 70, 9, 1)>>
    /\ jRowsB = <<Row(<<"/a">>, 10, 100, 4, 3)>>
    /\ Len(jOut) = 1
    /\ jOut[1].clicks_a = 7 /\ jOut[1].clicks_b = 10 /\ jOut[1].clicks_diff = -3

====
